---------------------------- MODULE Spec2Model ----------------------------
(***************************************************************************)
(* Model of the modality CTF plugins: the attribute-key registry           *)
(* (src/client.rs), the trace/stream property derivation                   *)
(* (src/properties), the event attribute set (src/event.rs) and the two    *)
(* ingestion pipelines (src/bin/importer.rs,                               *)
(* src/bin/lttng_live_collector.rs).                                       *)
(*                                                                         *)
(* Strings are sequences of atoms.  An atom stands for a fixed non-empty   *)
(* run of characters; "." is an atom of its own, so that starts_with,      *)
(* ends_with and format! on the delimiter are computed on the sequence.    *)
(* Option<T> is [some |-> FALSE] or [some |-> TRUE, v |-> value].          *)
(***************************************************************************)
EXTENDS Integers, Sequences, FiniteSets, TLC

VARIABLES
    client,       \* Client: the two key caches and the two rename tables
    store,        \* the downstream store as seen through DynamicIngestClient
    last,         \* outcome of the last operation (result, warning or error)
    mode,         \* which binary runs: "importer" or "live"
    cfg,          \* the merged configuration (CtfConfig and Opts)
    trace,        \* what the decoder reports: trace and stream descriptors
    pc,           \* position of do_main
    result,       \* "running", or what do_main returned / how the process ended
    interrupted,  \* the Interruptor flag
    has_metadata, \* CtfStream::has_metadata (live)
    props,        \* CtfProperties, once built
    extra_attrs,  \* additional and override timeline attributes, interned (live)
    pending,      \* stream ids the timeline loop has still to declare
    ordering,     \* last_timeline_ordering_val
    cur,          \* the event being handled by the loop body
    chunk,        \* the rest of events_chunk() (live)
    fed,          \* number of events the decoder has produced
    derived,      \* timeline ids derived so far (identity specification)
    flat          \* a call of field_to_attr: its arguments and its result

runVars ==
    <<mode, cfg, trace, pc, result, interrupted, has_metadata, props,
      extra_attrs, pending, ordering, cur, chunk, fed, derived,
      flat>>

vars == <<client, store, last, runVars>>

---------------------------------------------------------------------------
\* Bounds of the model

\* store invocations explored by the registry specification
MaxCalls == 3

\* events the decoder produces in one run
MaxEvents == 3

\* events in one chunk of the live decoder
MaxChunk == 2

---------------------------------------------------------------------------
\* Options and strings

None == [some |-> FALSE]

Some(x) == [some |-> TRUE, v |-> x]

Dot == "."

RECURSIVE Dotted(_)
\* the string  segs[1].segs[2]. ... .segs[n]
Dotted(segs) ==
    IF Len(segs) = 0 THEN <<>>
    ELSE IF Len(segs) = 1 THEN <<segs[1]>>
    ELSE <<segs[1], Dot>> \o Dotted(Tail(segs))

Digit(d) == <<"0", "1", "2", "3", "4", "5", "6", "7", "8", "9">>[d + 1]

RECURSIVE Decimal(_)
\* format!("{}", n) of an unsigned number
Decimal(n) ==
    IF n < 10 THEN <<Digit(n)>> ELSE Decimal(n \div 10) \o <<Digit(n % 10)>>

\* str::starts_with
StartsWith(s, p) ==
    /\ Len(s) >= Len(p)
    /\ SubSeq(s, 1, Len(p)) = p

\* insert into a map, replacing the value of a key already present
MapInsert(m, k, x) == (k :> x) @@ m

EmptyMap == <<>>

RECURSIVE Collect(_)
\* Iterator<(K, V)>::collect::<HashMap>: later pairs replace earlier ones
Collect(pairs) ==
    IF Len(pairs) = 0 THEN EmptyMap
    ELSE LET n == Len(pairs)
         IN  MapInsert(Collect(SubSeq(pairs, 1, n - 1)), pairs[n][1], pairs[n][2])

---------------------------------------------------------------------------
\* Attribute keys (src/attrs.rs)

TKey(tag) == [tag |-> tag, arg |-> <<>>]

TKeyOf(tag, arg) == [tag |-> tag, arg |-> arg]

\* Display of TimelineAttrKey
TimelineAttrKeyToString(key) ==
    CASE key.tag = "Name" -> Dotted(<<"timeline", "name">>)
      [] key.tag = "Description" -> Dotted(<<"timeline", "description">>)
      [] key.tag = "RunId" -> Dotted(<<"timeline", "run_id">>)
      [] key.tag = "TimeDomain" -> Dotted(<<"timeline", "time_domain">>)
      [] key.tag = "ClockStyle" -> Dotted(<<"timeline", "clock_style">>)
      [] key.tag = "IngestSource" -> Dotted(<<"timeline", "ingest_source">>)
      [] key.tag = "TraceName" ->
            Dotted(<<"timeline", "internal", "ctf", "trace", "name">>)
      [] key.tag = "TraceUuid" ->
            Dotted(<<"timeline", "internal", "ctf", "trace", "uuid">>)
      [] key.tag = "TraceStreamCount" ->
            Dotted(<<"timeline", "internal", "ctf", "trace", "stream_count">>)
      [] key.tag = "TraceEnv" ->
            Dotted(<<"timeline", "internal", "ctf", "trace", "env">>)
                \o <<Dot>> \o key.arg
      [] key.tag = "StreamId" ->
            Dotted(<<"timeline", "internal", "ctf", "stream", "id">>)
      [] key.tag = "StreamName" ->
            Dotted(<<"timeline", "internal", "ctf", "stream", "name">>)
      [] key.tag = "StreamClockFreq" ->
            Dotted(<<"timeline", "internal", "ctf", "stream", "clock", "frequency">>)
      [] key.tag = "StreamClockOffsetSeconds" ->
            Dotted(<<"timeline", "internal", "ctf", "stream", "clock", "offset_seconds">>)
      [] key.tag = "StreamClockOffsetCycles" ->
            Dotted(<<"timeline", "internal", "ctf", "stream", "clock", "offset_cycles">>)
      [] key.tag = "StreamClockPrecision" ->
            Dotted(<<"timeline", "internal", "ctf", "stream", "clock", "precision">>)
      [] key.tag = "StreamClockUnixEpoch" ->
            Dotted(<<"timeline", "internal", "ctf", "stream", "clock", "unix_epoch_origin">>)
      [] key.tag = "StreamClockName" ->
            Dotted(<<"timeline", "internal", "ctf", "stream", "clock", "name">>)
      [] key.tag = "StreamClockDesc" ->
            Dotted(<<"timeline", "internal", "ctf", "stream", "clock", "description">>)
      [] key.tag = "StreamClockUuid" ->
            Dotted(<<"timeline", "internal", "ctf", "stream", "clock", "uuid">>)
      [] key.tag = "MergeStreamId" ->
            Dotted(<<"timeline", "internal", "config", "merge_stream_id">>)
      [] key.tag = "Custom" -> <<"timeline", Dot>> \o key.arg

\* Display of EventAttrKey
EventAttrKeyToString(key) ==
    CASE key.tag = "Name" -> Dotted(<<"event", "name">>)
      [] key.tag = "Timestamp" -> Dotted(<<"event", "timestamp">>)
      [] key.tag = "StreamId" ->
            Dotted(<<"event", "internal", "ctf", "stream_id">>)
      [] key.tag = "Id" -> Dotted(<<"event", "internal", "ctf", "id">>)
      [] key.tag = "LogLevel" ->
            Dotted(<<"event", "internal", "ctf", "log_level">>)
      [] key.tag = "ClockSnapshot" ->
            Dotted(<<"event", "internal", "ctf", "clock_snapshot">>)
      [] key.tag = "CommonContext" ->
            Dotted(<<"event", "internal", "ctf", "common_context">>)
                \o <<Dot>> \o key.arg
      [] key.tag = "SpecificContext" ->
            Dotted(<<"event", "internal", "ctf", "specific_context">>)
                \o <<Dot>> \o key.arg
      [] key.tag = "PacketContext" ->
            Dotted(<<"event", "internal", "ctf", "packet_context">>)
                \o <<Dot>> \o key.arg
      [] key.tag = "Field" -> <<"event", Dot>> \o key.arg

---------------------------------------------------------------------------
\* The downstream store (DynamicIngestClient, an external collaborator).
\*   invoked   the declare_attr_key invocations, in order: [name, ok]
\*   declared  the key strings it accepted; the handle of declared[i] is i
\*   open      the timeline opened last and not closed
\*   log       the accepted timeline and event operations, in order
\*   attempts  the number of fallible store operations invoked
\* A context ctx = [client, store, fuel, err] threads one run of sequential
\* code: fuel is the number of store operations that still succeed, err is
\* set by the first failing one and makes the `?` of every later step return.

StoreNew ==
    [invoked |-> <<>>, declared |-> <<>>, open |-> None, log |-> <<>>,
     attempts |-> 0, failures |-> <<>>]

Ctx(c, s, fuel) == [client |-> c, store |-> s, fuel |-> fuel, err |-> FALSE]

\* a fallible store operation is invoked: it fails when no fuel is left;
\* the store counts the invocations and notes which of them failed
Attempt(ctx) ==
    IF ctx.fuel = 0
    THEN [ctx EXCEPT !.err = TRUE, !.store.attempts = @ + 1,
                     !.store.failures = Append(@, ctx.store.attempts + 1)]
    ELSE [ctx EXCEPT !.fuel = @ - 1, !.store.attempts = @ + 1]

\* DynamicIngestClient::declare_attr_key: [ctx, key], key the new handle
DeclareAttrKey(ctx, name) ==
    LET Reply(a) ==
            IF a.err
            THEN [ctx |-> [a EXCEPT !.store.invoked =
                                Append(@, [name |-> name, ok |-> FALSE])],
                  key |-> 0]
            ELSE [ctx |-> [a EXCEPT !.store.invoked =
                                Append(@, [name |-> name, ok |-> TRUE]),
                                    !.store.declared = Append(@, name)],
                  key |-> Len(a.store.declared) + 1]
    IN  Reply(Attempt(ctx))

\* DynamicIngestClient::open_timeline
OpenTimeline(ctx, tid) ==
    LET Reply(a) ==
            IF a.err THEN a
            ELSE [a EXCEPT !.store.open = Some(tid),
                           !.store.log = Append(@, [op |-> "open_timeline",
                                                    tid |-> tid])]
    IN  Reply(Attempt(ctx))

\* DynamicIngestClient::timeline_metadata, for the open timeline
TimelineMetadata(ctx, attr_kvs) ==
    LET Reply(a) ==
            IF a.err THEN a
            ELSE [a EXCEPT !.store.log =
                    Append(@, [op |-> "timeline_metadata", tid |-> a.store.open.v,
                               attrs |-> attr_kvs])]
    IN  Reply(Attempt(ctx))

\* DynamicIngestClient::event, for the open timeline
SubmitEvent(ctx, ord, attr_kvs) ==
    LET Reply(a) ==
            IF a.err THEN a
            ELSE [a EXCEPT !.store.log =
                    Append(@, [op |-> "event", tid |-> a.store.open.v,
                               ordering |-> ord, attrs |-> attr_kvs])]
    IN  Reply(Attempt(ctx))

\* DynamicIngestClient::close_timeline (cannot fail)
CloseTimeline(ctx) ==
    [ctx EXCEPT !.store.open = None,
                !.store.log = Append(@, [op |-> "close_timeline"])]

---------------------------------------------------------------------------
\* The attribute key registry (src/client.rs)

\* a normalisation that puts the prefix in front of every key
NormalizeTimelineKeyAlwaysPrefix(s) == <<"timeline", Dot>> \o s

normalize_timeline_key(s) ==
    IF StartsWith(s, <<"timeline", Dot>>) THEN s ELSE <<"timeline", Dot>> \o s

\* a normalisation that leaves the key without the prefix of its kind
NormalizeEventKeyNoPrefix(s) == s

normalize_event_key(s) ==
    IF StartsWith(s, <<"event", Dot>>) THEN s ELSE <<"event", Dot>> \o s

\* Client::new; a rename is [original |-> string, new |-> string]
ClientNew(rename_timeline_attrs, rename_event_attrs) ==
    [timeline_keys |-> EmptyMap,
     event_keys |-> EmptyMap,
     rename_timeline_attrs |->
        Collect([i \in DOMAIN rename_timeline_attrs |->
                    <<normalize_timeline_key(rename_timeline_attrs[i].original),
                      normalize_timeline_key(rename_timeline_attrs[i].new)>>]),
     rename_event_attrs |->
        Collect([i \in DOMAIN rename_event_attrs |->
                    <<normalize_event_key(rename_event_attrs[i].original),
                      normalize_event_key(rename_event_attrs[i].new)>>])]

\* the key string after the rename lookup of interned_timeline_key
FinalTimelineKey(c, key) ==
    LET Renamed(s) ==
            IF s \in DOMAIN c.rename_timeline_attrs
            THEN c.rename_timeline_attrs[s] ELSE s
    IN  Renamed(TimelineAttrKeyToString(key))

\* a rename lookup that follows the table until no rename applies
FinalEventKeyTransitive(c, key) ==
    LET Renamed(s) ==
            IF s \in DOMAIN c.rename_event_attrs
            THEN c.rename_event_attrs[s] ELSE s
    IN  Renamed(Renamed(EventAttrKeyToString(key)))

\* the key string after the rename lookup of interned_event_key
FinalEventKey(c, key) ==
    LET Renamed(s) ==
            IF s \in DOMAIN c.rename_event_attrs
            THEN c.rename_event_attrs[s] ELSE s
    IN  Renamed(EventAttrKeyToString(key))

\* a registry that declares the key on every call
InternedTimelineKeyRedeclare(ctx, key) ==
    LET Cache(k, d) ==
            IF d.ctx.err THEN d
            ELSE [ctx |-> [d.ctx EXCEPT
                             !.client.timeline_keys = MapInsert(@, k, d.key)],
                  key |-> d.key]
        Declare(k) == Cache(k, DeclareAttrKey(ctx, k))
    IN  Declare(FinalTimelineKey(ctx.client, key))

\* Client::interned_timeline_key: [ctx, key]
interned_timeline_key(ctx, key) ==
    LET Cache(k, d) ==
            IF d.ctx.err THEN d
            ELSE [ctx |-> [d.ctx EXCEPT
                             !.client.timeline_keys = MapInsert(@, k, d.key)],
                  key |-> d.key]
        Lookup(k) ==
            IF k \in DOMAIN ctx.client.timeline_keys
            THEN [ctx |-> ctx, key |-> ctx.client.timeline_keys[k]]
            ELSE Cache(k, DeclareAttrKey(ctx, k))
    IN  Lookup(FinalTimelineKey(ctx.client, key))

\* a registry that caches the key before it knows the declaration succeeded
InternedEventKeyCachesFailure(ctx, key) ==
    LET Cache(k, d) ==
            [ctx |-> [d.ctx EXCEPT
                        !.client.event_keys = MapInsert(@, k, d.key)],
             key |-> d.key]
        Lookup(k) ==
            IF k \in DOMAIN ctx.client.event_keys
            THEN [ctx |-> ctx, key |-> ctx.client.event_keys[k]]
            ELSE Cache(k, DeclareAttrKey(ctx, k))
    IN  Lookup(FinalEventKey(ctx.client, key))

\* a registry that looks the event key up under its original spelling
InternedEventKeyNoRename(ctx, key) ==
    LET Cache(k, d) ==
            IF d.ctx.err THEN d
            ELSE [ctx |-> [d.ctx EXCEPT
                             !.client.event_keys = MapInsert(@, k, d.key)],
                  key |-> d.key]
        Lookup(k) ==
            IF k \in DOMAIN ctx.client.event_keys
            THEN [ctx |-> ctx, key |-> ctx.client.event_keys[k]]
            ELSE Cache(k, DeclareAttrKey(ctx, k))
    IN  Lookup(EventAttrKeyToString(key))

\* Client::interned_event_key: [ctx, key]
interned_event_key(ctx, key) ==
    LET Cache(k, d) ==
            IF d.ctx.err THEN d
            ELSE [ctx |-> [d.ctx EXCEPT
                             !.client.event_keys = MapInsert(@, k, d.key)],
                  key |-> d.key]
        Lookup(k) ==
            IF k \in DOMAIN ctx.client.event_keys
            THEN [ctx |-> ctx, key |-> ctx.client.event_keys[k]]
            ELSE Cache(k, DeclareAttrKey(ctx, k))
    IN  Lookup(FinalEventKey(ctx.client, key))

---------------------------------------------------------------------------
\* Attribute values (modality_api::AttrVal) and identifiers

StringVal(x) == [t |-> "String", v |-> x]

\* BigInt::new_attr_val: the numbers of the model all fit an i64
BigIntNewAttrVal(n) == [t |-> "Integer", v |-> n]

IntegerVal(n) == [t |-> "Integer", v |-> n]

BoolVal(b) == [t |-> "Bool", v |-> b]

\* AttrVal::Timestamp(Nanoseconds)
TimestampVal(n) == [t |-> "Timestamp", v |-> n]

\* Uuid::to_string: the hyphenated text of a UUID, one atom
UuidToString(u) == <<u>>

RECURSIVE LeBytes(_, _)
\* the k low bytes of n, least significant first
LeBytes(n, k) ==
    IF k = 0 THEN <<>> ELSE <<n % 256>> \o LeBytes(n \div 256, k - 1)

\* u64::to_le_bytes
ToLeBytes(n) == LeBytes(n, 8)

\* Uuid::new_v5(namespace, name): the name hashed inside the namespace; the
\* hash is kept as the pair it is computed from (no collisions)
NewV5(namespace, name) == [v5 |-> namespace, name |-> name]

\* Option::or
OptOr(a, b) == IF a.some THEN a ELSE b

\* Option::unwrap_or_else
UnwrapOr(a, x) == IF a.some THEN a.v ELSE x

RECURSIVE InsertTimelineAttrs(_, _, _)
\* attrs.insert(client.interned_timeline_key(key).await?, val) for each
\* <<key, val>> of kvs in order: [ctx, attrs]; stops at the first error
InsertTimelineAttrs(ctx, attrs, kvs) ==
    IF Len(kvs) = 0 THEN [ctx |-> ctx, attrs |-> attrs]
    ELSE LET Insert(r) ==
                IF r.ctx.err
                THEN [ctx |-> r.ctx, attrs |-> attrs]
                ELSE InsertTimelineAttrs(r.ctx,
                        MapInsert(attrs, r.key, kvs[1][2]), Tail(kvs))
         IN  Insert(interned_timeline_key(ctx, kvs[1][1]))

RECURSIVE InsertEventAttrsKeepsFirst(_, _, _)
\* an insertion that keeps the value a handle already has
InsertEventAttrsKeepsFirst(ctx, attrs, kvs) ==
    IF Len(kvs) = 0 THEN [ctx |-> ctx, attrs |-> attrs]
    ELSE LET Insert(r) ==
                IF r.ctx.err
                THEN [ctx |-> r.ctx, attrs |-> attrs]
                ELSE InsertEventAttrsKeepsFirst(r.ctx,
                        IF r.key \in DOMAIN attrs THEN attrs
                        ELSE MapInsert(attrs, r.key, kvs[1][2]), Tail(kvs))
         IN  Insert(interned_event_key(ctx, kvs[1][1]))

RECURSIVE InsertEventAttrs(_, _, _)
\* the same with interned_event_key
InsertEventAttrs(ctx, attrs, kvs) ==
    IF Len(kvs) = 0 THEN [ctx |-> ctx, attrs |-> attrs]
    ELSE LET Insert(r) ==
                IF r.ctx.err
                THEN [ctx |-> r.ctx, attrs |-> attrs]
                ELSE InsertEventAttrs(r.ctx,
                        MapInsert(attrs, r.key, kvs[1][2]), Tail(kvs))
         IN  Insert(interned_event_key(ctx, kvs[1][1]))

RECURSIVE AttrKvs(_)
\* attr_kvs(): the entries of an attribute map as a Vec of <<handle, value>>
\* (a HashMap has no order of its own; the handles are taken ascending)
AttrKvs(attrs) ==
    IF DOMAIN attrs = {} THEN <<>>
    ELSE LET h == CHOOSE x \in DOMAIN attrs : \A y \in DOMAIN attrs : x <= y
         IN  <<<<h, attrs[h]>>>>
                \o AttrKvs([k \in DOMAIN attrs \ {h} |-> attrs[k]])

---------------------------------------------------------------------------
\* Trace and stream properties (src/properties)
\*   t = [name, uuid, env]: TraceProperties, env an Option of a sequence of
\*       <<key string, EnvValue>>
\*   s = [id, name, clock]: StreamProperties; a name is
\*       [text, exists, file_name] with exists = Path::exists, the text a
\*       sequence of atoms that ends with the final component of the path

EnvVal(x) ==
    IF x.t = "Integer" THEN IntegerVal(x.v) ELSE StringVal(x.v)


\* the UUID CtfTraceProperties::new reports: trace_uuid_override.or(t.uuid)
TraceUuidAttr(trace_uuid_override, t) == OptOr(trace_uuid_override, t.uuid)

\* CtfTraceProperties::new: [ctx, trace]; rnd_run_id is the Uuid::new_v4()
\* drawn when no run id is configured
CtfTraceProperties_new(ctx, run_id, trace_uuid_override, stream_count, t, rnd_run_id) ==
    LET Kvs(u) ==
            <<<<TKey("RunId"), StringVal(UuidToString(UnwrapOr(run_id, rnd_run_id)))>>>>
            \o (IF u.some
                THEN <<<<TKey("TraceUuid"), StringVal(UuidToString(u.v))>>>>
                ELSE <<>>)
            \o <<<<TKey("TraceStreamCount"), BigIntNewAttrVal(stream_count)>>>>
            \o (IF t.name.some
                THEN <<<<TKey("Name"), StringVal(t.name.v)>>,
                       <<TKey("TraceName"), StringVal(t.name.v)>>>>
                ELSE <<>>)
            \o (IF t.env.some
                THEN [i \in DOMAIN t.env.v |->
                        <<TKeyOf("TraceEnv", t.env.v[i][1]), EnvVal(t.env.v[i][2])>>]
                ELSE <<>>)
        Done(r) == [ctx |-> r.ctx, trace |-> [attrs |-> r.attrs]]
    IN  Done(InsertTimelineAttrs(ctx, EmptyMap,
                                 Kvs(TraceUuidAttr(trace_uuid_override, t))))

\* a choice that takes the file name of a path whether it exists or not
StreamNameIgnoresExists(s) ==
    IF s.name.some /\ s.name.v.file_name.some THEN s.name.v.file_name.v
    ELSE IF s.name.some THEN s.name.v.text
    ELSE <<"stream">> \o Decimal(s.id)

\* the timeline name of a stream (stream.rs, stream_name)
StreamName(s) ==
    LET stream_name_from_path ==
            IF s.name.some /\ s.name.v.exists THEN s.name.v.file_name ELSE None
    IN  IF stream_name_from_path.some THEN stream_name_from_path.v
        ELSE IF s.name.some THEN s.name.v.text
        ELSE <<"stream">> \o Decimal(s.id)

\* a derivation from the name of the stream instead of its id
TimelineIdFromName(trace_uuid, s) == NewV5(trace_uuid, StreamName(s))

\* TimelineId::from(Uuid::new_v5(trace_uuid, &s.id.to_le_bytes()))
TimelineIdOf(trace_uuid, s) == NewV5(trace_uuid, ToLeBytes(s.id))

\* the attributes of the clock of a stream, in the order they are inserted
ClockKvs(c) ==
    <<<<TKey("StreamClockFreq"), BigIntNewAttrVal(c.frequency)>>,
      <<TKey("StreamClockOffsetSeconds"), IntegerVal(c.offset_seconds)>>,
      <<TKey("StreamClockOffsetCycles"), BigIntNewAttrVal(c.offset_cycles)>>,
      <<TKey("StreamClockPrecision"), BigIntNewAttrVal(c.precision)>>,
      <<TKey("StreamClockUnixEpoch"), BoolVal(c.unix_epoch_origin)>>>>
    \o (IF c.name.some
        THEN <<<<TKey("StreamClockName"), StringVal(c.name.v)>>>> ELSE <<>>)
    \o (IF c.description.some
        THEN <<<<TKey("StreamClockDesc"), StringVal(c.description.v)>>>> ELSE <<>>)
    \o (IF c.uuid.some
        THEN <<<<TKey("StreamClockUuid"), StringVal(UuidToString(c.uuid.v))>>,
               <<TKey("TimeDomain"), StringVal(UuidToString(c.uuid.v))>>>>
        ELSE <<>>)
    \o <<<<TKey("ClockStyle"),
           StringVal(IF c.unix_epoch_origin THEN <<"utc">> ELSE <<"relative">>)>>>>

\* CtfStreamProperties::new: [ctx, stream], stream = [timeline_id, attrs]
CtfStreamProperties_new(ctx, trace_uuid, s) ==
    LET Kvs(stream_name) ==
            <<<<TKey("Description"),
                StringVal(<<"CTF stream '">> \o stream_name \o <<"'">>)>>,
              <<TKey("Name"), StringVal(stream_name)>>,
              <<TKey("StreamName"), StringVal(stream_name)>>,
              <<TKey("StreamId"), BigIntNewAttrVal(s.id)>>,
              <<TKey("IngestSource"), StringVal(<<"ctf-plugins">>)>>>>
            \o (IF s.clock.some THEN ClockKvs(s.clock.v) ELSE <<>>)
        Done(r) ==
            [ctx |-> r.ctx,
             stream |-> [timeline_id |-> TimelineIdOf(trace_uuid, s),
                         attrs |-> r.attrs]]
    IN  Done(InsertTimelineAttrs(ctx, EmptyMap, Kvs(StreamName(s))))

RECURSIVE NewStreams(_, _, _, _)
\* the loop of CtfProperties::new over the stream set: [ctx, streams]
NewStreams(ctx, trace_uuid, s, streams) ==
    IF Len(s) = 0 \/ ctx.err THEN [ctx |-> ctx, streams |-> streams]
    ELSE LET Insert(r) ==
                IF r.ctx.err
                THEN [ctx |-> r.ctx, streams |-> streams]
                ELSE NewStreams(r.ctx, trace_uuid, Tail(s),
                                MapInsert(streams, s[1].id, r.stream))
         IN  Insert(CtfStreamProperties_new(ctx, trace_uuid, s[1]))

\* a selection that prefers the UUID of the decoder to the override
TraceUuidDecoderFirst(trace_uuid_override, t, rnd_trace_uuid) ==
    UnwrapOr(OptOr(t.uuid, trace_uuid_override), rnd_trace_uuid)

\* trace_uuid_override.or(t.uuid).unwrap_or_else(Uuid::new_v4)
TraceUuid(trace_uuid_override, t, rnd_trace_uuid) ==
    UnwrapOr(OptOr(trace_uuid_override, t.uuid), rnd_trace_uuid)

\* CtfProperties::new: [ctx, props], props = [trace, streams]; s is the
\* stream set in its order, rnd the two UUIDs Uuid::new_v4() would draw
CtfProperties_new(ctx, run_id, trace_uuid_override, t, s, rnd) ==
    LET Done(tr, st) ==
            [ctx |-> st.ctx, props |-> [trace |-> tr.trace, streams |-> st.streams]]
        Streams(trace_uuid, tr) ==
            Done(tr, NewStreams(tr.ctx, trace_uuid, s, EmptyMap))
    IN  Streams(TraceUuid(trace_uuid_override, t, rnd.trace_uuid),
                CtfTraceProperties_new(ctx, run_id, trace_uuid_override,
                                       Len(s), t, rnd.run_id))

RECURSIVE AscendingSeq(_)
\* the elements of a set of numbers, ascending (BTreeMap iteration order)
AscendingSeq(S) ==
    IF S = {} THEN <<>>
    ELSE LET m == CHOOSE x \in S : \A y \in S : x <= y
         IN  <<m>> \o AscendingSeq(S \ {m})

\* CtfProperties::timelines, the item of stream_id:
\* (timeline id, stream attr_kvs followed by the trace attr_kvs)
TimelineOf(p, stream_id) ==
    [tid |-> p.streams[stream_id].timeline_id,
     attr_kvs |-> AttrKvs(p.streams[stream_id].attrs)
                    \o AttrKvs(p.trace.attrs)]

---------------------------------------------------------------------------
\* Registry specification: any sequence of intern calls on one Client

\* rename configurations: <<timeline renames, event renames>>
Rename(o, n) == [original |-> o, new |-> n]

RenamePool ==
    { <<<<>>, <<>>>>,
      \* given without the namespace prefix
      << <<Rename(<<"a">>, <<"b">>)>>, <<Rename(<<"a">>, <<"b">>)>> >>,
      \* chained: a -> b and b -> c
      << <<Rename(Dotted(<<"timeline", "a">>), Dotted(<<"timeline", "b">>)),
           Rename(Dotted(<<"timeline", "b">>), Dotted(<<"timeline", "c">>))>>,
         <<Rename(Dotted(<<"event", "a">>), Dotted(<<"event", "b">>)),
           Rename(Dotted(<<"event", "b">>), Dotted(<<"event", "c">>))>> >>,
      \* an event key renamed to a spelling of the other namespace
      << <<>>,
         <<Rename(Dotted(<<"event", "a">>), Dotted(<<"timeline", "a">>))>> >> }

TimelineKeyPool ==
    { TKey("Name"), TKeyOf("Custom", <<"a">>), TKeyOf("Custom", <<"b">>) }

EventKeyPool ==
    { TKey("Name"), TKeyOf("Field", <<"a">>), TKeyOf("Field", <<"b">>) }

\* what an intern call returned: Result<InternedAttrKey, Error>
CallResult(ns, key, final, r) ==
    [op |-> "intern", ns |-> ns, key |-> key, final |-> final,
     ok |-> ~r.ctx.err, handle |-> r.key]

\* the run variables are not used by the registry specification
Idle ==
    /\ mode = "none" /\ cfg = None /\ trace = None /\ pc = "none"
    /\ result = "none" /\ interrupted = FALSE /\ has_metadata = FALSE
    /\ props = None /\ extra_attrs = <<>> /\ pending = <<>>
    /\ ordering = EmptyMap /\ cur = None /\ chunk = <<>> /\ fed = 0
    /\ derived = <<>>

InitClient ==
    /\ \E rn \in RenamePool : client = ClientNew(rn[1], rn[2])
    /\ store = StoreNew
    /\ last = [op |-> "new"]
    /\ Idle /\ flat = None

InternTimelineKey ==
    \E key \in TimelineKeyPool, fuel \in 0..1 :
        /\ store.attempts < MaxCalls
        /\ LET r == interned_timeline_key(Ctx(client, store, fuel), key)
           IN  /\ client' = r.ctx.client
               /\ store' = r.ctx.store
               /\ last' = CallResult("timeline", key,
                                     FinalTimelineKey(client, key), r)
               /\ UNCHANGED runVars

InternEventKey ==
    \E key \in EventKeyPool, fuel \in 0..1 :
        /\ store.attempts < MaxCalls
        /\ LET r == interned_event_key(Ctx(client, store, fuel), key)
           IN  /\ client' = r.ctx.client
               /\ store' = r.ctx.store
               /\ last' = CallResult("event", key,
                                     FinalEventKey(client, key), r)
               /\ UNCHANGED runVars

NextClient == InternTimelineKey \/ InternEventKey

SpecClient == InitClient /\ [][NextClient]_vars

---------------------------------------------------------------------------
\* Field flattening (src/event.rs): FieldToAttrKeysGen

\* OwnedField::Scalar
Scalar(name, s) == [kind |-> "Scalar", name |-> name, scalar |-> s]

\* OwnedField::Structure
Structure(name, fields) == [kind |-> "Structure", name |-> name, fields |-> fields]

\* the eight kinds of ScalarField; a real number is kept as its text
Bool(v) == [t |-> "Bool", v |-> v]

UnsignedInteger(v) == [t |-> "UnsignedInteger", v |-> v]

SignedInteger(v) == [t |-> "SignedInteger", v |-> v]

SinglePrecisionReal(v) == [t |-> "SinglePrecisionReal", v |-> v]

DoublePrecisionReal(v) == [t |-> "DoublePrecisionReal", v |-> v]

String(v) == [t |-> "String", v |-> v]

UnsignedEnumeration(v, labels) ==
    [t |-> "UnsignedEnumeration", v |-> v, labels |-> labels]

SignedEnumeration(v, labels) ==
    [t |-> "SignedEnumeration", v |-> v, labels |-> labels]

\* AttrVal::Float
FloatVal(x) == [t |-> "Float", v |-> x]

\* AttrVal::TimelineId
TimelineIdVal(u) == [t |-> "TimelineId", v |-> u]

\* AttrVal::LogicalTime
LogicalTimeVal(x) == [t |-> "LogicalTime", v |-> x]

TraceUuidPool == {"U1", "U2"}

\* the UUIDs Uuid::new_v4() may draw
FreshUuids == {"R1", "R2"}

\* the UUIDs of the model; the text of a UUID is one atom (UuidToString)
Uuids == TraceUuidPool \cup FreshUuids

\* str::parse::<Uuid>: the inverse of UuidToString, an error on other text
ParseUuid(s) ==
    IF Len(s) = 1 /\ s[1] \in Uuids THEN Some(s[1]) ELSE None

\* the logical times of the model, each written as one atom
LogicalTimes == {"0:0:0:1"}

\* str::parse::<LogicalTime>
ParseLogicalTime(s) ==
    IF Len(s) = 1 /\ s[1] \in LogicalTimes THEN Some(s[1]) ELSE None

\* uuid_to_integer_attr_val: the sixteen bytes read as a little-endian i128
uuid_to_integer_attr_val(u) == [t |-> "BigInt", v |-> [from_le_bytes |-> u]]

\* str::contains
Contains(s, p) ==
    \E i \in 0..(Len(s) - Len(p)) : SubSeq(s, i + 1, i + Len(p)) = p

\* str::ends_with
EndsWith(s, p) ==
    /\ Len(s) >= Len(p)
    /\ SubSeq(s, Len(s) - Len(p) + 1, Len(s)) = p

ReservedAttrKeys ==
    {"TimelineId", "LogicalTime", "Timestamp", "Nonce",
     "MutatorId", "MutationId", "MutationSuccess"}

\* ReservedAttrKey::to_ctf_key
to_ctf_key(r) ==
    CASE r = "TimelineId" -> <<"remote_timeline_id">>
      [] r = "LogicalTime" -> <<"remote_logical_time">>
      [] r = "Timestamp" -> <<"remote_timestamp">>
      [] r = "Nonce" -> <<"remote_nonce">>
      [] r = "MutatorId" -> <<"mutator_id">>
      [] r = "MutationId" -> <<"mutation_id">>
      [] r = "MutationSuccess" -> <<"mutation_success">>

\* ReservedAttrKey::to_modality_key
to_modality_key(r) ==
    CASE r = "TimelineId" -> Dotted(<<"interaction", "remote_timeline_id">>)
      [] r = "LogicalTime" -> Dotted(<<"interaction", "remote_logical_time">>)
      [] r = "Timestamp" -> Dotted(<<"interaction", "remote_timestamp">>)
      [] r = "Nonce" -> Dotted(<<"interaction", "remote_nonce">>)
      [] r = "MutatorId" -> Dotted(<<"mutator", "id">>)
      [] r = "MutationId" -> Dotted(<<"mutation", "id">>)
      [] r = "MutationSuccess" -> Dotted(<<"mutation", "success">>)

\* a matches_key that looks for the CTF token only
MatchesKeyTokenOnly(r, k) ==
    Contains(k, to_ctf_key(r))

\* a matches_key that wants the whole key to be the reserved token
MatchesKeyWholeKey(r, k) ==
    k = to_ctf_key(r)

\* ReservedAttrKey::matches_key
matches_key(r, k) ==
    ~Contains(k, to_modality_key(r)) /\ Contains(k, to_ctf_key(r))

\* scalar_field_to_val
scalar_field_to_val(s) ==
    CASE s.t = "Bool" -> BoolVal(s.v)
      [] s.t = "UnsignedInteger" -> BigIntNewAttrVal(s.v)
      [] s.t = "SignedInteger" -> IntegerVal(s.v)
      [] s.t = "SinglePrecisionReal" -> FloatVal(s.v)
      [] s.t = "DoublePrecisionReal" -> FloatVal(s.v)
      [] s.t = "String" -> StringVal(s.v)
      [] s.t = "UnsignedEnumeration" -> BigIntNewAttrVal(s.v)
      [] s.t = "SignedEnumeration" -> IntegerVal(s.v)

\* an enum_label_attr that takes a label whenever there is one
EnumLabelAttrAnyLabel(key_prefix, labels) ==
    IF Cardinality(labels) >= 1
    THEN Some(<<key_prefix \o <<Dot, "label">>,
                StringVal(<<CHOOSE l \in labels : TRUE>>)>>)
    ELSE None

\* enum_label_attr: the label, when the enumeration value has exactly one
enum_label_attr(key_prefix, labels) ==
    IF Cardinality(labels) = 1
    THEN Some(<<key_prefix \o <<Dot, "label">>,
                StringVal(<<CHOOSE l \in labels : TRUE>>)>>)
    ELSE None

\* a constructor that looks at the start of the prefix only
FieldToAttrKeysGenNewLeadingDotOnly(key_prefix, auto_map_interaction_fields, is_reserved_event) ==
    IF StartsWith(key_prefix, <<Dot>>)
    THEN [ok |-> FALSE, err |-> "InvalidAttrKeyPrefix"]
    ELSE [ok |-> TRUE,
          gen |-> [anonymous_field_idices_per_nesting_depth |-> <<0>>,
                   attr_key_stack |-> <<key_prefix>>,
                   root_struct_observed |-> FALSE,
                   auto_map_interaction_fields |-> auto_map_interaction_fields,
                   is_reserved_event |-> is_reserved_event,
                   attrs |-> EmptyMap,
                   handled |-> <<>>]]

\* FieldToAttrKeysGen::new; handled is the history of the calls of
\* handle_scalar_field, kept for the properties
FieldToAttrKeysGen_new(key_prefix, auto_map_interaction_fields, is_reserved_event) ==
    IF StartsWith(key_prefix, <<Dot>>) \/ EndsWith(key_prefix, <<Dot>>)
    THEN [ok |-> FALSE, err |-> "InvalidAttrKeyPrefix"]
    ELSE [ok |-> TRUE,
          gen |-> [anonymous_field_idices_per_nesting_depth |-> <<0>>,
                   attr_key_stack |-> <<key_prefix>>,
                   root_struct_observed |-> FALSE,
                   auto_map_interaction_fields |-> auto_map_interaction_fields,
                   is_reserved_event |-> is_reserved_event,
                   attrs |-> EmptyMap,
                   handled |-> <<>>]]

\* a naming whose index counts the named fields as well
ResolveFieldNameCountsNamed(gen, field_name) ==
    LET idices == gen.anonymous_field_idices_per_nesting_depth
        nesting_depth == Len(idices)
    IN  [gen |-> [gen EXCEPT
                    !.anonymous_field_idices_per_nesting_depth[nesting_depth]
                        = @ + 1],
         n |-> IF field_name.some THEN field_name.v
               ELSE <<"anonymous_">> \o Decimal(idices[nesting_depth])]

\* FieldToAttrKeysGen::resolve_field_name
resolve_field_name(gen, field_name) ==
    IF field_name.some
    THEN [gen |-> gen, n |-> field_name.v]
    ELSE LET idices == gen.anonymous_field_idices_per_nesting_depth
             nesting_depth == Len(idices)
         IN  [gen |-> [gen EXCEPT
                        !.anonymous_field_idices_per_nesting_depth[nesting_depth]
                            = @ + 1],
              n |-> <<"anonymous_">> \o Decimal(idices[nesting_depth])]

RECURSIVE JoinDot(_)
\* [String]::join(".")
JoinDot(parts) ==
    IF Len(parts) = 0 THEN <<>>
    ELSE IF Len(parts) = 1 THEN parts[1]
    ELSE parts[1] \o <<Dot>> \o JoinDot(Tail(parts))

\* a join that keeps the empty components of the stack
AttrKeyForFieldNameNoFilter(gen, field_name) ==
    LET Go(r) ==
            [gen |-> r.gen,
             k |-> JoinDot(r.gen.attr_key_stack \o <<r.n>>)]
    IN  Go(resolve_field_name(gen, field_name))

\* FieldToAttrKeysGen::attr_key_for_field_name
attr_key_for_field_name(gen, field_name) ==
    LET Go(r) ==
            [gen |-> r.gen,
             k |-> JoinDot(SelectSeq(r.gen.attr_key_stack, LAMBDA c : Len(c) > 0)
                           \o <<r.n>>)]
    IN  Go(resolve_field_name(gen, field_name))

\* interaction arms that test the Nonce token before the other three
InteractionRemapNonceFirst(k, s) ==
    IF matches_key("Nonce", k)
    THEN Some(<<to_modality_key("Nonce"), scalar_field_to_val(s)>>)
    ELSE IF matches_key("TimelineId", k)
    THEN IF s.t = "String" /\ ParseUuid(s.v).some
         THEN Some(<<to_modality_key("TimelineId"),
                     TimelineIdVal(ParseUuid(s.v).v)>>)
         ELSE None
    ELSE IF matches_key("LogicalTime", k)
    THEN IF s.t = "String" /\ ParseLogicalTime(s.v).some
         THEN Some(<<to_modality_key("LogicalTime"),
                     LogicalTimeVal(ParseLogicalTime(s.v).v)>>)
         ELSE None
    ELSE IF matches_key("Timestamp", k)
    THEN IF s.t = "UnsignedInteger"
         THEN Some(<<to_modality_key("Timestamp"), TimestampVal(s.v)>>)
         ELSE None
    ELSE None

\* interaction arms whose Timestamp arm takes every integer and boolean
InteractionRemapTimestampOfAnyNumber(k, s) ==
    IF matches_key("TimelineId", k)
    THEN IF s.t = "String" /\ ParseUuid(s.v).some
         THEN Some(<<to_modality_key("TimelineId"),
                     TimelineIdVal(ParseUuid(s.v).v)>>)
         ELSE None
    ELSE IF matches_key("LogicalTime", k)
    THEN IF s.t = "String" /\ ParseLogicalTime(s.v).some
         THEN Some(<<to_modality_key("LogicalTime"),
                     LogicalTimeVal(ParseLogicalTime(s.v).v)>>)
         ELSE None
    ELSE IF matches_key("Timestamp", k)
    THEN IF s.t \in {"UnsignedInteger", "SignedInteger", "Bool"}
         THEN Some(<<to_modality_key("Timestamp"), TimestampVal(s.v)>>)
         ELSE None
    ELSE IF matches_key("Nonce", k)
    THEN Some(<<to_modality_key("Nonce"), scalar_field_to_val(s)>>)
    ELSE None

\* interaction arms in which a failed arm lets the later arms have the field
InteractionRemapTriesLaterArms(k, s) ==
    IF matches_key("TimelineId", k) /\ s.t = "String" /\ ParseUuid(s.v).some
    THEN Some(<<to_modality_key("TimelineId"),
                TimelineIdVal(ParseUuid(s.v).v)>>)
    ELSE IF /\ matches_key("LogicalTime", k) /\ s.t = "String"
            /\ ParseLogicalTime(s.v).some
    THEN Some(<<to_modality_key("LogicalTime"),
                LogicalTimeVal(ParseLogicalTime(s.v).v)>>)
    ELSE IF matches_key("Timestamp", k) /\ s.t = "UnsignedInteger"
    THEN Some(<<to_modality_key("Timestamp"), TimestampVal(s.v)>>)
    ELSE IF matches_key("Nonce", k)
    THEN Some(<<to_modality_key("Nonce"), scalar_field_to_val(s)>>)
    ELSE None

\* the interaction arms of handle_scalar_field: the remapped attribute, or
\* None when the code falls through
InteractionRemap(k, s) ==
    IF matches_key("TimelineId", k)
    THEN IF s.t = "String" /\ ParseUuid(s.v).some
         THEN Some(<<to_modality_key("TimelineId"),
                     TimelineIdVal(ParseUuid(s.v).v)>>)
         ELSE None
    ELSE IF matches_key("LogicalTime", k)
    THEN IF s.t = "String" /\ ParseLogicalTime(s.v).some
         THEN Some(<<to_modality_key("LogicalTime"),
                     LogicalTimeVal(ParseLogicalTime(s.v).v)>>)
         ELSE None
    ELSE IF matches_key("Timestamp", k)
    THEN IF s.t = "UnsignedInteger"
         THEN Some(<<to_modality_key("Timestamp"), TimestampVal(s.v)>>)
         ELSE None
    ELSE IF matches_key("Nonce", k)
    THEN Some(<<to_modality_key("Nonce"), scalar_field_to_val(s)>>)
    ELSE None

\* reserved-event arms that take every integer as a success
ReservedRemapSuccessOfAnyInteger(k, s) ==
    IF matches_key("MutatorId", k)
    THEN IF s.t = "String" /\ ParseUuid(s.v).some
         THEN Some(<<to_modality_key("MutatorId"),
                     uuid_to_integer_attr_val(ParseUuid(s.v).v)>>)
         ELSE None
    ELSE IF matches_key("MutationId", k)
    THEN IF s.t = "String" /\ ParseUuid(s.v).some
         THEN Some(<<to_modality_key("MutationId"),
                     uuid_to_integer_attr_val(ParseUuid(s.v).v)>>)
         ELSE None
    ELSE IF matches_key("MutationSuccess", k)
    THEN IF s.t = "Bool"
         THEN Some(<<to_modality_key("MutationSuccess"), BoolVal(s.v)>>)
         ELSE IF s.t \in {"UnsignedInteger", "SignedInteger"}
         THEN Some(<<to_modality_key("MutationSuccess"), BoolVal(TRUE)>>)
         ELSE None
    ELSE None

\* the reserved-event arms of handle_scalar_field
ReservedRemap(k, s) ==
    IF matches_key("MutatorId", k)
    THEN IF s.t = "String" /\ ParseUuid(s.v).some
         THEN Some(<<to_modality_key("MutatorId"),
                     uuid_to_integer_attr_val(ParseUuid(s.v).v)>>)
         ELSE None
    ELSE IF matches_key("MutationId", k)
    THEN IF s.t = "String" /\ ParseUuid(s.v).some
         THEN Some(<<to_modality_key("MutationId"),
                     uuid_to_integer_attr_val(ParseUuid(s.v).v)>>)
         ELSE None
    ELSE IF matches_key("MutationSuccess", k)
    THEN IF s.t = "Bool"
         THEN Some(<<to_modality_key("MutationSuccess"), BoolVal(s.v)>>)
         ELSE IF s.t \in {"UnsignedInteger", "SignedInteger"}
         THEN Some(<<to_modality_key("MutationSuccess"), BoolVal(s.v # 0)>>)
         ELSE None
    ELSE None

\* a handle_scalar_field whose reserved-event arms also want
\* auto_map_interaction_fields
ScalarFieldAttrKeyValReservedUnderAutoMap(gen, k, s) ==
    IF s.t \in {"UnsignedEnumeration", "SignedEnumeration"}
    THEN IF enum_label_attr(k, s.labels).some
         THEN <<<<k, scalar_field_to_val(s)>>, enum_label_attr(k, s.labels).v>>
         ELSE <<<<k, scalar_field_to_val(s)>>>>
    ELSE IF gen.auto_map_interaction_fields /\ InteractionRemap(k, s).some
    THEN <<InteractionRemap(k, s).v>>
    ELSE IF /\ gen.is_reserved_event /\ gen.auto_map_interaction_fields
            /\ ReservedRemap(k, s).some
    THEN <<ReservedRemap(k, s).v>>
    ELSE <<<<k, scalar_field_to_val(s)>>>>

\* a handle_scalar_field that tries the remappings before the enumeration arm
ScalarFieldAttrKeyValRemapsFirst(gen, k, s) ==
    IF gen.auto_map_interaction_fields /\ InteractionRemap(k, s).some
    THEN <<InteractionRemap(k, s).v>>
    ELSE IF gen.is_reserved_event /\ ReservedRemap(k, s).some
    THEN <<ReservedRemap(k, s).v>>
    ELSE IF s.t \in {"UnsignedEnumeration", "SignedEnumeration"}
    THEN IF enum_label_attr(k, s.labels).some
         THEN <<<<k, scalar_field_to_val(s)>>, enum_label_attr(k, s.labels).v>>
         ELSE <<<<k, scalar_field_to_val(s)>>>>
    ELSE <<<<k, scalar_field_to_val(s)>>>>

\* what handle_scalar_field returns for the key k: one pair (Single) or two
\* (Double)
ScalarFieldAttrKeyVal(gen, k, s) ==
    IF s.t \in {"UnsignedEnumeration", "SignedEnumeration"}
    THEN IF enum_label_attr(k, s.labels).some
         THEN <<<<k, scalar_field_to_val(s)>>, enum_label_attr(k, s.labels).v>>
         ELSE <<<<k, scalar_field_to_val(s)>>>>
    ELSE IF gen.auto_map_interaction_fields /\ InteractionRemap(k, s).some
    THEN <<InteractionRemap(k, s).v>>
    ELSE IF gen.is_reserved_event /\ ReservedRemap(k, s).some
    THEN <<ReservedRemap(k, s).v>>
    ELSE <<<<k, scalar_field_to_val(s)>>>>

\* FieldToAttrKeysGen::handle_scalar_field
handle_scalar_field(gen, field_name, s) ==
    LET Go(r) == [gen |-> r.gen, k |-> r.k,
                  kvs |-> ScalarFieldAttrKeyVal(r.gen, r.k, s)]
    IN  Go(attr_key_for_field_name(gen, field_name))

\* a begin_nested_struture that gives the root structure a component too
BeginNestedStructureRootNamed(gen, field_name) ==
    LET Go(r) ==
            [r.gen EXCEPT
               !.root_struct_observed = TRUE,
               !.attr_key_stack = Append(@, r.n),
               !.anonymous_field_idices_per_nesting_depth = Append(@, 0)]
    IN  Go(resolve_field_name(gen, field_name))

\* FieldToAttrKeysGen::begin_nested_struture
begin_nested_struture(gen, field_name) ==
    IF ~gen.root_struct_observed
    THEN [gen EXCEPT !.root_struct_observed = TRUE]
    ELSE LET Go(r) ==
                 [r.gen EXCEPT
                    !.attr_key_stack = Append(@, r.n),
                    !.anonymous_field_idices_per_nesting_depth = Append(@, 0)]
         IN  Go(resolve_field_name(gen, field_name))

\* Vec::pop
Pop(v) == IF Len(v) = 0 THEN v ELSE SubSeq(v, 1, Len(v) - 1)

\* an end_nested_structure that leaves the key component on the stack
EndNestedStructureKeepsKey(gen) ==
    [gen EXCEPT !.anonymous_field_idices_per_nesting_depth = Pop(@)]

\* FieldToAttrKeysGen::end_nested_structure
end_nested_structure(gen) ==
    [gen EXCEPT !.anonymous_field_idices_per_nesting_depth = Pop(@),
                !.attr_key_stack = Pop(@)]

RECURSIVE InsertAllKeepsFirst(_, _)
\* an insertion that keeps the value a key already has
InsertAllKeepsFirst(m, kvs) ==
    IF Len(kvs) = 0 THEN m
    ELSE InsertAllKeepsFirst(
             IF kvs[1][1] \in DOMAIN m THEN m
             ELSE MapInsert(m, kvs[1][1], kvs[1][2]),
             Tail(kvs))

RECURSIVE InsertAll(_, _)
\* HashMap::insert of the pairs, in order
InsertAll(m, kvs) ==
    IF Len(kvs) = 0 THEN m
    ELSE InsertAll(MapInsert(m, kvs[1][1], kvs[1][2]), Tail(kvs))

RECURSIVE generate_inner(_, _)
RECURSIVE GenerateFields(_, _)
\* FieldToAttrKeysGen::generate_inner
generate_inner(gen, root_field) ==
    IF root_field.kind = "Scalar"
    THEN LET Go(r) ==
                 [r.gen EXCEPT
                    !.attrs = InsertAll(@, r.kvs),
                    !.handled = Append(@, [field_name |-> root_field.name,
                                           s |-> root_field.scalar,
                                           k |-> r.k, kvs |-> r.kvs])]
         IN  Go(handle_scalar_field(gen, root_field.name, root_field.scalar))
    ELSE end_nested_structure(
             GenerateFields(begin_nested_struture(gen, root_field.name),
                            root_field.fields))

\* the loop of generate_inner over the fields of a structure; the test on g
\* has the first field evaluated before the loop goes on
GenerateFields(gen, fields) ==
    IF Len(fields) = 0 THEN gen
    ELSE LET Go(g) ==
                 IF Len(g.attr_key_stack) >= 0
                 THEN GenerateFields(g, Tail(fields))
                 ELSE g
         IN  Go(generate_inner(gen, fields[1]))

\* FieldToAttrKeysGen::generate
generate(gen, root_field) == generate_inner(gen, root_field)

\* field_to_attr: the map, with the history of handled scalars and the two
\* stacks of the generator, as generate_inner leaves them, beside it
field_to_attr(f, prefix, auto_map_interaction_fields, is_reserved_event) ==
    LET Go(r) ==
            IF ~r.ok THEN [ok |-> FALSE, err |-> r.err]
            ELSE LET Done(g) ==
                        [ok |-> TRUE, attrs |-> g.attrs, handled |-> g.handled,
                         anonymous_field_idices_per_nesting_depth |->
                            g.anonymous_field_idices_per_nesting_depth,
                         attr_key_stack |-> g.attr_key_stack]
                 IN  Done(generate(r.gen, f))
    IN  Go(FieldToAttrKeysGen_new(prefix, auto_map_interaction_fields,
                                  is_reserved_event))

---------------------------------------------------------------------------
\* The attribute set of an event (src/event.rs, CtfEvent::new)
\*   event = [stream_id, clock_snapshot, class_properties = [id, name, log_level],
\*            properties = [common_context, specific_context, packet_context,
\*            payload], hasher]: OwnedEvent, each field group an Option of a
\*            field tree; hasher = [rev, rot] stands for the RandomState of
\*            the HashMaps of the call, which decides their iteration order

\* the well-known modality event names: <<event name, reserved>>
EventNameOf(n) ==
    CASE n = <<"modality_mutator_announced">> ->
            <<Dotted(<<"modality", "mutator", "announced">>), TRUE>>
      [] n = <<"modality_mutator_retired">> ->
            <<Dotted(<<"modality", "mutator", "retired">>), TRUE>>
      [] n = <<"modality_mutation_command_communicated">> ->
            <<Dotted(<<"modality", "mutation", "command_communicated">>), TRUE>>
      [] n = <<"modality_mutation_clear_communicated">> ->
            <<Dotted(<<"modality", "mutation", "clear_communicated">>), TRUE>>
      [] n = <<"modality_mutation_triggered">> ->
            <<Dotted(<<"modality", "mutation", "triggered">>), TRUE>>
      [] n = <<"modality_mutation_injected">> ->
            <<Dotted(<<"modality", "mutation", "injected">>), TRUE>>
      [] OTHER -> <<n, FALSE>>

\* format!("{ll:?}").to_lowercase() of a log level
LogLevelText(ll) ==
    CASE ll = "Emergency" -> <<"emergency">>
      [] ll = "Alert" -> <<"alert">>
      [] ll = "Critical" -> <<"critical">>
      [] ll = "Error" -> <<"error">>
      [] ll = "Warning" -> <<"warning">>
      [] ll = "Notice" -> <<"notice">>
      [] ll = "Info" -> <<"info">>
      [] ll = "Debug" -> <<"debug">>

\* a conversion that keeps a negative snapshot as it is
TimestampNsKeepsNegative(event) == event.clock_snapshot

\* the clock snapshot as a timestamp: a negative one is dropped
TimestampNs(event) ==
    IF event.clock_snapshot.some /\ event.clock_snapshot.v >= 0
    THEN Some(event.clock_snapshot.v) ELSE None

RECURSIVE SomeOrder(_)
\* the elements of a set in one fixed order
SomeOrder(S) ==
    IF S = {} THEN <<>>
    ELSE LET x == CHOOSE y \in S : TRUE
         IN  <<x>> \o SomeOrder(S \ {x})

Rotate(q, n) ==
    IF Len(q) = 0 THEN q
    ELSE [i \in 1..Len(q) |-> q[((i - 1 + n) % Len(q)) + 1]]

Reversed(q) == [i \in 1..Len(q) |-> q[Len(q) + 1 - i]]

\* HashMap::into_iter: the entries <<key, value>> in the order the hasher
\* gives them
IntoIter(m, hasher) ==
    LET Keys(q) == IF hasher.rev THEN Reversed(q) ELSE q
        Entries(q) == [i \in DOMAIN q |-> <<q[i], m[q[i]]>>]
    IN  Entries(Keys(Rotate(SomeOrder(DOMAIN m), hasher.rot)))

\* one field group of CtfEvent::new: field_to_attr with the empty prefix,
\* then an insert for every entry of its map under the key of the group;
\* acc = [ctx, attrs, written], written the pairs inserted so far, in order
InsertFieldGroup(acc, tag, group, auto_map, reserved, hasher) ==
    IF acc.ctx.err \/ ~group.some THEN acc
    ELSE LET Written(kvs, r) ==
                 [ctx |-> r.ctx, attrs |-> r.attrs,
                  written |-> acc.written \o kvs]
             Insert(kvs) ==
                 Written(kvs, InsertEventAttrs(acc.ctx, acc.attrs, kvs))
             Keyed(entries) ==
                 [i \in DOMAIN entries |->
                     <<TKeyOf(tag, entries[i][1]), entries[i][2]>>]
             Go(r) ==
                 IF ~r.ok THEN [acc EXCEPT !.ctx.err = TRUE]
                 ELSE Insert(Keyed(IntoIter(r.attrs, hasher)))
         IN  Go(field_to_attr(group.v, <<>>, auto_map, reserved))

\* context flags that are those of the payload group
ContextFlagsLikePayload(event) ==
    [auto_map |-> TRUE,
     reserved |-> /\ event.class_properties.name.some
                  /\ EventNameOf(event.class_properties.name.v)[2]]

\* the flags of the three context groups: nothing is remapped
ContextFlagsOf(event) == [auto_map |-> FALSE, reserved |-> FALSE]

\* the flags of the payload group: interaction fields are mapped, and the
\* mutator and mutation fields when the event name is a reserved one
PayloadFlagsOf(event) ==
    [auto_map |-> TRUE,
     reserved |-> /\ event.class_properties.name.some
                  /\ EventNameOf(event.class_properties.name.v)[2]]

\* CtfEvent::new: [ctx, attrs, written]
CtfEvent_new(ctx, event) ==
    LET Kvs(cp, ts) ==
            (IF cp.name.some
             THEN <<<<TKey("Name"), StringVal(EventNameOf(cp.name.v)[1])>>>>
             ELSE <<>>)
            \o (IF ts.some
                THEN <<<<TKey("Timestamp"), TimestampVal(ts.v)>>,
                       <<TKey("ClockSnapshot"), TimestampVal(ts.v)>>>>
                ELSE <<>>)
            \o <<<<TKey("StreamId"), BigIntNewAttrVal(event.stream_id)>>,
                 <<TKey("Id"), BigIntNewAttrVal(cp.id)>>>>
            \o (IF cp.log_level.some
                THEN <<<<TKey("LogLevel"), StringVal(LogLevelText(cp.log_level.v))>>>>
                ELSE <<>>)
        BuiltIn(kvs) ==
            LET Written(r) ==
                    [ctx |-> r.ctx, attrs |-> r.attrs, written |-> kvs]
            IN  Written(InsertEventAttrs(ctx, EmptyMap, kvs))
        Payload(acc, flags) ==
            InsertFieldGroup(acc, "Field", event.properties.payload,
                             flags.auto_map, flags.reserved, event.hasher)
        Context(acc, tag, group) ==
            InsertFieldGroup(acc, tag, group, ContextFlagsOf(event).auto_map,
                             ContextFlagsOf(event).reserved, event.hasher)
    IN  Payload(
            Context(
                Context(
                    Context(BuiltIn(Kvs(event.class_properties,
                                        TimestampNs(event))),
                            "CommonContext", event.properties.common_context),
                    "SpecificContext", event.properties.specific_context),
                "PacketContext", event.properties.packet_context),
            PayloadFlagsOf(event))

---------------------------------------------------------------------------
\* The ingestion pipelines (src/bin/importer.rs, src/bin/lttng_live_collector.rs)

Unlimited == 0 - 1

\* the number of store operations invoked between two states of the store
AttemptsOf(before, after) == after.attempts - before.attempts

\* a loop body that numbers the events of all timelines with one counter
ProcessEventSharedCounter(ctx, ord, timeline_id, event) ==
    LET Count(log) == Cardinality({i \in DOMAIN log : log[i].op = "event"})
        Done(s) ==
            IF s.err THEN [ctx |-> s, ord |-> ord]
            ELSE [ctx |-> CloseTimeline(s),
                  ord |-> [ord EXCEPT ![timeline_id] = Count(s.store.log)]]
        Submit(o, attrs) ==
            Done(IF o.err THEN o
                 ELSE SubmitEvent(o, Count(o.store.log), AttrKvs(attrs)))
        Open(e) ==
            Submit(IF e.ctx.err THEN e.ctx ELSE OpenTimeline(e.ctx, timeline_id),
                   e.attrs)
    IN  Open(CtfEvent_new(ctx, event))

\* a loop body that goes on after a store operation has failed
ProcessEventNoCheck(ctx, ord, timeline_id, event) ==
    LET Done(s) ==
            [ctx |-> CloseTimeline(s),
             ord |-> [ord EXCEPT ![timeline_id] = @ + 1]]
        Submit(o, attrs) == Done(SubmitEvent(o, ord[timeline_id], AttrKvs(attrs)))
        Open(e) == Submit(OpenTimeline(e.ctx, timeline_id), e.attrs)
    IN  Open(CtfEvent_new(ctx, event))

\* a loop body that declares the timeline of the event again before the event
ProcessEventRedeclares(ctx, ord, timeline_id, event) ==
    LET Done(s) ==
            IF s.err THEN [ctx |-> s, ord |-> ord]
            ELSE [ctx |-> CloseTimeline(s),
                  ord |-> [ord EXCEPT ![timeline_id] = @ + 1]]
        Submit(o, attrs) ==
            Done(IF o.err THEN o
                 ELSE SubmitEvent(o, ord[timeline_id], AttrKvs(attrs)))
        Metadata(o, attrs) ==
            Submit(IF o.err THEN o ELSE TimelineMetadata(o, <<>>), attrs)
        Open(e) ==
            Metadata(IF e.ctx.err THEN e.ctx ELSE OpenTimeline(e.ctx, timeline_id),
                     e.attrs)
    IN  Open(CtfEvent_new(ctx, event))

\* the loop body once the timeline and its counter are found:
\* CtfEvent::new, open_timeline, event, *ordering += 1, close_timeline
ProcessEvent(ctx, ord, timeline_id, event) ==
    LET Done(s) ==
            IF s.err THEN [ctx |-> s, ord |-> ord]
            ELSE [ctx |-> CloseTimeline(s),
                  ord |-> [ord EXCEPT ![timeline_id] = @ + 1]]
        Submit(o, attrs) ==
            Done(IF o.err THEN o
                 ELSE SubmitEvent(o, ord[timeline_id], AttrKvs(attrs)))
        Open(e) ==
            Submit(IF e.ctx.err THEN e.ctx ELSE OpenTimeline(e.ctx, timeline_id),
                   e.attrs)
    IN  Open(CtfEvent_new(ctx, event))

\* a lookup that falls back on some stream of the metadata
ResolveAnyStream(p, stream_id) ==
    IF DOMAIN p.streams = {} THEN None
    ELSE Some(p.streams[CHOOSE x \in DOMAIN p.streams : TRUE].timeline_id)

\* props.streams.get(&event.stream_id).map(|s| s.timeline_id())
ResolveTimeline(p, stream_id) ==
    IF stream_id \in DOMAIN p.streams
    THEN Some(p.streams[stream_id].timeline_id) ELSE None

\* the attributes sent with the metadata of a timeline
\*   importer: the Vec of CtfProperties::timelines as it is
\*   live:     collected into a HashMap together with the additional and the
\*             override attributes, a later entry replacing an earlier one
MetadataAttrs(m, attr_kvs, extra) ==
    IF m = "importer" THEN attr_kvs
    ELSE AttrKvs(Collect(attr_kvs \o extra))

\* a declaration that gives the timeline no ordering counter
DeclareOneNoCounter(ctx, ord, m, tl, extra) ==
    LET Done(d) == [ctx |-> d, ord |-> ord]
        Metadata(o) ==
            Done(IF o.err THEN o
                 ELSE TimelineMetadata(o, MetadataAttrs(m, tl.attr_kvs, extra)))
    IN  Metadata(OpenTimeline(ctx, tl.tid))

\* a declaration that opens the timeline but sends no metadata
DeclareOneNoMetadata(ctx, ord, m, tl, extra) ==
    LET Done(d) ==
            IF d.err THEN [ctx |-> d, ord |-> ord]
            ELSE [ctx |-> d, ord |-> MapInsert(ord, tl.tid, 0)]
    IN  Done(OpenTimeline(ctx, tl.tid))

\* one iteration of the loop over props.timelines():
\* open_timeline, timeline_metadata, last_timeline_ordering_val.insert(tid, 0)
DeclareOne(ctx, ord, m, tl, extra) ==
    LET Done(d) ==
            IF d.err THEN [ctx |-> d, ord |-> ord]
            ELSE [ctx |-> d, ord |-> MapInsert(ord, tl.tid, 0)]
        Metadata(o) ==
            Done(IF o.err THEN o
                 ELSE TimelineMetadata(o, MetadataAttrs(m, tl.attr_kvs, extra)))
    IN  Metadata(OpenTimeline(ctx, tl.tid))

RECURSIVE InternCustomAttrs(_, _, _)
\* the two loops interning TimelineAttrKey::Custom keys (live): [ctx, kvs]
InternCustomAttrs(ctx, kvs, out) ==
    IF Len(kvs) = 0 THEN [ctx |-> ctx, kvs |-> out]
    ELSE LET Push(r) ==
                IF r.ctx.err
                THEN [ctx |-> r.ctx, kvs |-> out]
                ELSE InternCustomAttrs(r.ctx, Tail(kvs),
                                       Append(out, <<r.key, kvs[1][2]>>))
         IN  Push(interned_timeline_key(ctx, TKeyOf("Custom", kvs[1][1])))

\* CtfProperties::new followed, in the live collector, by the interning of
\* the additional and override timeline attributes: [ctx, props, extra]
BuildProps(ctx, m, c, t, rnd) ==
    LET Done(p, x) == [ctx |-> x.ctx, props |-> p.props, extra |-> x.kvs]
        Custom(p) ==
            Done(p, IF p.ctx.err \/ m = "importer"
                    THEN [ctx |-> p.ctx, kvs |-> <<>>]
                    ELSE InternCustomAttrs(p.ctx,
                            c.additional_timeline_attributes
                                \o c.override_timeline_attributes, <<>>))
    IN  Custom(CtfProperties_new(ctx, c.run_id, c.trace_uuid, t.t, t.streams, rnd))

\* ---- inputs of a run

Clock ==
    [frequency |-> 1000, offset_seconds |-> 0, offset_cycles |-> 0,
     precision |-> 1, unix_epoch_origin |-> TRUE, name |-> Some(<<"monotonic">>),
     description |-> None, uuid |-> Some("U3")]

\* Path::file_name: the final component of a path (the last atom of its
\* text), None when the path ends in ".."
PathFileName(text) ==
    IF text[Len(text)] = ".." THEN None ELSE Some(<<text[Len(text)]>>)

\* Path::new(sn) with what the filesystem says of it
PathOf(text, exists) ==
    [text |-> text, exists |-> exists, file_name |-> PathFileName(text)]

Stream0 ==
    [id |-> 0,
     name |-> Some(PathOf(<<"/trace/", "stream_0">>, TRUE)),
     clock |-> Some(Clock)]

Stream1 == [id |-> 1, name |-> None, clock |-> None]

TracePool ==
    { [t |-> [name |-> None, uuid |-> None, env |-> None],
       streams |-> <<>>],
      [t |-> [name |-> Some(<<"trace">>), uuid |-> Some("U2"),
              env |-> Some(<<<<(<<"hostname">>), StringVal(<<"host">>)>>>>)],
       streams |-> <<Stream0, Stream1>>],
      [t |-> [name |-> None, uuid |-> None, env |-> None],
       streams |-> <<Stream0, Stream1>>] }

ConfigPool ==
    { [run_id |-> None, trace_uuid |-> None,
       rename_timeline_attrs |-> <<>>, rename_event_attrs |-> <<>>,
       additional_timeline_attributes |-> <<>>,
       override_timeline_attributes |-> <<>>,
       session_not_found_action |-> "Continue"],
      [run_id |-> Some("U9"), trace_uuid |-> Some("U1"),
       rename_timeline_attrs |->
          <<Rename(Dotted(<<"internal", "ctf", "trace", "uuid">>), <<"trace_uuid">>)>>,
       rename_event_attrs |->
          <<Rename(Dotted(<<"event", "name">>), <<"label">>)>>,
       additional_timeline_attributes |-> <<<<(<<"site">>), StringVal(<<"lab">>)>>>>,
       override_timeline_attributes |-> <<>>,
       session_not_found_action |-> "Fail"] }

\* the events of the pipeline carry no field group
NoProperties ==
    [common_context |-> None, specific_context |-> None,
     packet_context |-> None, payload |-> None]

Ev(stream_id, id, name, clock_snapshot) ==
    [stream_id |-> stream_id, clock_snapshot |-> clock_snapshot,
     class_properties |-> [id |-> id, name |-> name, log_level |-> None],
     properties |-> NoProperties,
     hasher |-> [rev |-> FALSE, rot |-> 0]]

\* stream 7 is not in the metadata of any trace of TracePool
EventPool ==
    { Ev(0, 1, Some(<<"ev">>), Some(5)),
      Ev(1, 2, None, None),
      Ev(7, 1, Some(<<"ev">>), Some(5)),
      Ev(0, 3, Some(<<"modality_mutator_announced">>), Some(0 - 1)) }

Chunks(n) == UNION {[1..k -> EventPool] : k \in 0..n}

Min(a, b) == IF a < b THEN a ELSE b

\* ---- the run

Init ==
    /\ mode \in {"importer", "live"}
    /\ cfg \in ConfigPool
    /\ trace \in TracePool
    /\ client = ClientNew(<<>>, <<>>)
    /\ store = StoreNew
    /\ last = [op |-> "start"]
    /\ pc = "init" /\ result = "running" /\ interrupted = FALSE
    /\ has_metadata = FALSE /\ props = None /\ extra_attrs = <<>>
    /\ pending = <<>> /\ ordering = EmptyMap /\ cur = None /\ chunk = <<>>
    /\ fed = 0 /\ derived = <<>> /\ flat = None

\* do_main returns Err(e)
Fail(kind) ==
    /\ pc' = "done" /\ result' = "err" /\ last' = [op |-> kind]

\* do_main returns Ok(())
Finish(why) ==
    /\ pc' = "done" /\ result' = "ok" /\ last' = [op |-> why]

\* the first position of the streaming loop
StreamingPc == IF mode = "importer" THEN "iter" ELSE "update"

\* a poll that never sees the flag
IsSetNever(flag) == FALSE

\* Interruptor::is_set
IsSet(flag) == flag

\* the ctrlc handler: the first signal sets the flag, the second one ends
\* the process with status 130
CtrlC ==
    /\ pc # "done"
    /\ IF interrupted
       THEN /\ pc' = "done" /\ result' = "exit130" /\ last' = [op |-> "exit130"]
            /\ UNCHANGED interrupted
       ELSE /\ interrupted' = TRUE
            /\ UNCHANGED <<pc, result, last>>
    /\ UNCHANGED <<client, store, mode, cfg, trace, has_metadata, props,
                   extra_attrs, pending, ordering, cur, chunk, fed, derived, flat>>

\* importer: configuration, connection to the store, CtfIterator::new
ImporterSetup ==
    /\ mode = "importer" /\ pc = "init"
    /\ \/ Fail("err_setup") /\ UNCHANGED client
       \/ /\ client' = ClientNew(cfg.rename_timeline_attrs, cfg.rename_event_attrs)
          /\ pc' = "props" /\ last' = [op |-> "connected"]
          /\ UNCHANGED result
    /\ UNCHANGED <<store, mode, cfg, trace, interrupted, has_metadata, props,
                   extra_attrs, pending, ordering, cur, chunk, fed, derived, flat>>

\* live: configuration (MissingUrl)
LiveSetup ==
    /\ mode = "live" /\ pc = "init"
    /\ \/ Fail("err_setup")
       \/ pc' = "conn" /\ last' = [op |-> "configured"] /\ UNCHANGED result
    /\ UNCHANGED <<client, store, mode, cfg, trace, interrupted, has_metadata,
                   props, extra_attrs, pending, ordering, cur, chunk, fed,
                   derived, flat>>

\* live: one turn of 'conn_loop, then CtfStream::new
LiveConnLoop ==
    /\ mode = "live" /\ pc = "conn"
    /\ \E probe \in {"connected", "unreachable", "unresolved", "no_address",
                     "socket_error", "stream_error"} :
          CASE probe = "connected" ->
                  pc' = "meta" /\ last' = [op |-> "host_up"] /\ UNCHANGED result
            [] probe = "unresolved" ->
                  pc' = "meta" /\ last' = [op |-> "unresolved"] /\ UNCHANGED result
            [] probe = "unreachable" ->
                  IF cfg.session_not_found_action # "Continue"
                  THEN pc' = "meta" /\ last' = [op |-> "warn_unreachable"]
                       /\ UNCHANGED result
                  ELSE last' = [op |-> "sleep_unreachable"]
                       /\ UNCHANGED <<pc, result>>
            [] probe = "no_address" ->
                  last' = [op |-> "no_address"] /\ UNCHANGED <<pc, result>>
            [] probe = "socket_error" -> Fail("err_setup")
            [] probe = "stream_error" -> Fail("err_decoder")
    /\ UNCHANGED <<client, store, mode, cfg, trace, interrupted, has_metadata,
                   props, extra_attrs, pending, ordering, cur, chunk, fed,
                   derived, flat>>

\* live: the head of the loop waiting for metadata: the flag is polled
LiveMetaPoll ==
    /\ mode = "live" /\ pc = "meta" /\ ~has_metadata
    /\ IF IsSet(interrupted)
       THEN Finish("interrupted")
       ELSE pc' = "meta_update" /\ last' = [op |-> "polled"] /\ UNCHANGED result
    /\ UNCHANGED <<client, store, mode, cfg, trace, interrupted, has_metadata,
                   props, extra_attrs, pending, ordering, cur, chunk, fed,
                   derived, flat>>

\* live: ctf_stream.update() of the loop waiting for metadata
LiveMetaUpdate ==
    /\ mode = "live" /\ pc = "meta_update"
    /\ \E status \in {"Ok", "TryAgain", "End", "Error"} :
          CASE status = "Ok" ->
                  /\ has_metadata' \in BOOLEAN
                  /\ pc' = IF has_metadata' THEN "found" ELSE "meta"
                  /\ last' = [op |-> "update_ok"] /\ UNCHANGED result
            [] status = "TryAgain" ->
                  /\ pc' = "meta" /\ last' = [op |-> "try_again"]
                  /\ UNCHANGED <<result, has_metadata>>
            [] status = "End" ->
                  /\ pc' = "found" /\ last' = [op |-> "update_end"]
                  /\ UNCHANGED <<result, has_metadata>>
            [] status = "Error" ->
                  Fail("err_decoder") /\ UNCHANGED has_metadata
    /\ UNCHANGED <<client, store, mode, cfg, trace, interrupted, props,
                   extra_attrs, pending, ordering, cur, chunk, fed, derived, flat>>

\* what ctf_stream.stream_properties() holds
StreamProperties == IF has_metadata THEN trace.streams ELSE <<>>

\* live: a connection to the store without the EmptyCtfTrace check
LiveConnectUnchecked ==
    /\ mode = "live" /\ pc = "found"
    /\ \/ Fail("err_setup") /\ UNCHANGED client
       \/ /\ client' = ClientNew(cfg.rename_timeline_attrs,
                                 cfg.rename_event_attrs)
          /\ pc' = "props" /\ last' = [op |-> "connected"]
          /\ UNCHANGED result
    /\ UNCHANGED <<store, mode, cfg, trace, interrupted, has_metadata, props,
                   extra_attrs, pending, ordering, cur, chunk, fed, derived, flat>>

\* live: the EmptyCtfTrace check, then the connection to the store
LiveConnect ==
    /\ mode = "live" /\ pc = "found"
    /\ IF Len(StreamProperties) = 0
       THEN Fail("err_empty_ctf_trace") /\ UNCHANGED client
       ELSE \/ Fail("err_setup") /\ UNCHANGED client
            \/ /\ client' = ClientNew(cfg.rename_timeline_attrs,
                                      cfg.rename_event_attrs)
               /\ pc' = "props" /\ last' = [op |-> "connected"]
               /\ UNCHANGED result
    /\ UNCHANGED <<store, mode, cfg, trace, interrupted, has_metadata, props,
                   extra_attrs, pending, ordering, cur, chunk, fed, derived, flat>>

\* CtfProperties::new (and the custom timeline attributes of the live
\* collector); with no stream there is nothing to declare
NewProps ==
    /\ pc = "props"
    /\ \E rnd \in [run_id : FreshUuids, trace_uuid : FreshUuids],
          full \in {BuildProps(Ctx(client, store, Unlimited), mode, cfg, trace,
                               [run_id |-> "R1", trace_uuid |-> "R1"])} :
        \E fuel \in 0..AttemptsOf(store, full.ctx.store) :
          \E r \in {BuildProps(Ctx(client, store, fuel), mode, cfg, trace, rnd)} :
              /\ client' = r.ctx.client
              /\ store' = r.ctx.store
              /\ IF r.ctx.err
                 THEN Fail("err_store")
                      /\ UNCHANGED <<props, extra_attrs, pending>>
                 ELSE /\ props' = Some(r.props)
                      /\ extra_attrs' = r.extra
                      /\ pending' = AscendingSeq(DOMAIN r.props.streams)
                      /\ pc' = IF DOMAIN r.props.streams = {}
                               THEN StreamingPc ELSE "declare"
                      /\ last' = [op |-> IF DOMAIN r.props.streams = {}
                                         THEN "warn_no_trace_data"
                                         ELSE "props"]
                      /\ UNCHANGED result
    /\ UNCHANGED <<mode, cfg, trace, interrupted, has_metadata, ordering, cur,
                   chunk, fed, derived, flat>>

\* one iteration of the loop declaring the timelines
DeclareTimeline ==
    /\ pc = "declare" /\ Len(pending) > 0
    /\ \E fuel \in 0..2 :
         \E r \in {DeclareOne(Ctx(client, store, fuel), ordering, mode,
                              TimelineOf(props.v, Head(pending)), extra_attrs)} :
             /\ store' = r.ctx.store
             /\ ordering' = r.ord
             /\ IF r.ctx.err
                THEN Fail("err_store") /\ UNCHANGED pending
                ELSE /\ pending' = Tail(pending)
                     /\ pc' = IF Len(pending) = 1 THEN StreamingPc ELSE "declare"
                     /\ last' = [op |-> "declared"]
                     /\ UNCHANGED result
    /\ UNCHANGED <<client, mode, cfg, trace, interrupted, has_metadata, props,
                   extra_attrs, cur, chunk, fed, derived, flat>>

\* importer: the head of `for maybe_event in trace_iter`: the iterator is
\* advanced, then the flag is polled, then the item is unwrapped
ImporterNext ==
    /\ mode = "importer" /\ pc = "iter"
    /\ \E item \in {[kind |-> "end"], [kind |-> "error"]}
                    \cup (IF fed < MaxEvents
                          THEN {[kind |-> "event", e |-> x] : x \in EventPool}
                          ELSE {}) :
         /\ fed' = IF item.kind = "event" THEN fed + 1 ELSE fed
         /\ IF item.kind = "end" THEN Finish("end") /\ UNCHANGED cur
            ELSE IF IsSet(interrupted) THEN Finish("interrupted") /\ UNCHANGED cur
            ELSE IF item.kind = "error" THEN Fail("err_decoder") /\ UNCHANGED cur
            ELSE /\ cur' = Some(item.e) /\ pc' = "event"
                 /\ last' = [op |-> "decoded"] /\ UNCHANGED result
    /\ UNCHANGED <<client, store, mode, cfg, trace, interrupted, has_metadata,
                   props, extra_attrs, pending, ordering, chunk, derived, flat>>

\* live: the head of the outer loop: the flag is polled
LivePoll ==
    /\ mode = "live" /\ pc = "update"
    /\ IF IsSet(interrupted)
       THEN Finish("interrupted")
       ELSE pc' = "updating" /\ last' = [op |-> "polled"] /\ UNCHANGED result
    /\ UNCHANGED <<client, store, mode, cfg, trace, interrupted, has_metadata,
                   props, extra_attrs, pending, ordering, cur, chunk, fed,
                   derived, flat>>

\* an outer loop that polls the decoder again after try-again without
\* reading the flag
LiveUpdateRetriesAtOnce ==
    /\ mode = "live" /\ pc = "updating"
    /\ \E status \in {"Ok", "TryAgain", "End", "Error"} :
          CASE status = "Ok" ->
                  \E c \in Chunks(Min(MaxChunk, MaxEvents - fed)) :
                      /\ chunk' = c /\ fed' = fed + Len(c)
                      /\ pc' = IF Len(c) = 0 THEN "update" ELSE "chunk"
                      /\ last' = [op |-> "update_ok"] /\ UNCHANGED result
            [] status = "TryAgain" ->
                  /\ pc' = "updating" /\ last' = [op |-> "try_again"]
                  /\ UNCHANGED <<result, chunk, fed>>
            [] status = "End" -> Finish("end") /\ UNCHANGED <<chunk, fed>>
            [] status = "Error" ->
                  Fail("err_decoder") /\ UNCHANGED <<chunk, fed>>
    /\ UNCHANGED <<client, store, mode, cfg, trace, interrupted, has_metadata,
                   props, extra_attrs, pending, ordering, cur, derived, flat>>

\* live: ctf_stream.update() of the outer loop
LiveUpdate ==
    /\ mode = "live" /\ pc = "updating"
    /\ \E status \in {"Ok", "TryAgain", "End", "Error"} :
          CASE status = "Ok" ->
                  \E c \in Chunks(Min(MaxChunk, MaxEvents - fed)) :
                      /\ chunk' = c /\ fed' = fed + Len(c)
                      /\ pc' = IF Len(c) = 0 THEN "update" ELSE "chunk"
                      /\ last' = [op |-> "update_ok"] /\ UNCHANGED result
            [] status = "TryAgain" ->
                  /\ pc' = "update" /\ last' = [op |-> "try_again"]
                  /\ UNCHANGED <<result, chunk, fed>>
            [] status = "End" -> Finish("end") /\ UNCHANGED <<chunk, fed>>
            [] status = "Error" ->
                  Fail("err_decoder") /\ UNCHANGED <<chunk, fed>>
    /\ UNCHANGED <<client, store, mode, cfg, trace, interrupted, has_metadata,
                   props, extra_attrs, pending, ordering, cur, derived, flat>>

\* live: the head of `for event in ctf_stream.events_chunk()`
LiveChunkNext ==
    /\ mode = "live" /\ pc = "chunk" /\ Len(chunk) > 0
    /\ IF IsSet(interrupted)
       THEN /\ pc' = "update" /\ chunk' = <<>> /\ last' = [op |-> "break"]
            /\ UNCHANGED cur
       ELSE /\ cur' = Some(Head(chunk)) /\ chunk' = Tail(chunk)
            /\ pc' = "event" /\ last' = [op |-> "decoded"]
    /\ UNCHANGED <<client, store, mode, cfg, trace, result, interrupted,
                   has_metadata, props, extra_attrs, pending, ordering, fed,
                   derived, flat>>

\* where the loop body goes when it is through with an event
AfterEvent ==
    IF mode = "importer" THEN "iter"
    ELSE IF Len(chunk) = 0 THEN "update" ELSE "chunk"

\* the loop body: resolve the timeline and its counter, or drop the event
\* with a warning; else build, submit and count the event
HandleEvent ==
    /\ pc = "event" /\ cur.some
    /\ \E tid \in {ResolveTimeline(props.v, cur.v.stream_id)} :
         IF ~tid.some
         THEN /\ last' = [op |-> "warn_unknown_stream"]
              /\ pc' = AfterEvent
              /\ UNCHANGED <<client, store, ordering, result>>
         ELSE IF tid.v \notin DOMAIN ordering
         THEN /\ last' = [op |-> "warn_unregistered_timeline"]
              /\ pc' = AfterEvent
              /\ UNCHANGED <<client, store, ordering, result>>
         ELSE \E full \in {ProcessEvent(Ctx(client, store, Unlimited), ordering,
                                        tid.v, cur.v)} :
               \E fuel \in 0..AttemptsOf(store, full.ctx.store) :
                 \E r \in {ProcessEvent(Ctx(client, store, fuel), ordering,
                                        tid.v, cur.v)} :
                     /\ client' = r.ctx.client
                     /\ store' = r.ctx.store
                     /\ ordering' = r.ord
                     /\ IF r.ctx.err
                        THEN Fail("err_store")
                        ELSE /\ pc' = AfterEvent
                             /\ last' = [op |-> "ingested"]
                             /\ UNCHANGED result
    /\ cur' = None
    /\ UNCHANGED <<mode, cfg, trace, interrupted, has_metadata, props,
                   extra_attrs, pending, chunk, fed, derived, flat>>

Next ==
    \/ CtrlC
    \/ ImporterSetup
    \/ LiveSetup
    \/ LiveConnLoop
    \/ LiveMetaPoll
    \/ LiveMetaUpdate
    \/ LiveConnect
    \/ NewProps
    \/ DeclareTimeline
    \/ ImporterNext
    \/ LivePoll
    \/ LiveUpdate
    \/ LiveChunkNext
    \/ HandleEvent

Spec == Init /\ [][Next]_vars

\* weak fairness of HandleEvent, with ENABLED <<HandleEvent>>_vars written
\* out: the loop body has a step, which empties cur, exactly when an event is
\* at hand
HandleEventReturns ==
    []<>~(pc = "event" /\ cur.some) \/ []<><<HandleEvent>>_vars

\* weak fairness of NewProps, with ENABLED <<NewProps>>_vars written out: the
\* step leaves pc = "props" whatever the store answers
NewPropsReturns ==
    []<>~(pc = "props") \/ []<><<NewProps>>_vars

\* every call of the run returns: each step of the program that can be taken
\* is taken in the end; the signal handler (CtrlC) is left to the user
Returns ==
    /\ WF_vars(ImporterSetup) /\ WF_vars(LiveSetup) /\ WF_vars(LiveConnLoop)
    /\ WF_vars(LiveMetaPoll) /\ WF_vars(LiveMetaUpdate) /\ WF_vars(LiveConnect)
    /\ NewPropsReturns /\ WF_vars(DeclareTimeline) /\ WF_vars(ImporterNext)
    /\ WF_vars(LivePoll) /\ WF_vars(LiveUpdate) /\ WF_vars(LiveChunkNext)
    /\ HandleEventReturns

\* the runs in which every call returns
SpecReturns == Init /\ [][Next]_vars /\ Returns

---------------------------------------------------------------------------
\* Identity specification: timeline ids derived by CtfStreamProperties::new
\* for any trace UUID and stream descriptor, in one run and in several runs

\* derivations recorded
MaxDerivations == 2

\* runs started
MaxRuns == 2

\* stream descriptors that share ids and differ in name and clock
StreamPool ==
    [id : {0, 1},
     name : {None, Stream0.name,
             Some(PathOf(<<"/gone/", "stream_1">>, FALSE)),
             Some(PathOf(<<"/trace/", "..">>, TRUE))},
     clock : {None, Some(Clock)}]

InitIdentity ==
    /\ client = ClientNew(<<>>, <<>>)
    /\ store = StoreNew
    /\ last = [op |-> "new_run", run |-> 1]
    /\ Idle /\ flat = None

\* a further run: a new Client on a new connection
NewRun ==
    /\ last.run < MaxRuns
    /\ client' = ClientNew(<<>>, <<>>)
    /\ store' = StoreNew
    /\ last' = [op |-> "new_run", run |-> last.run + 1]
    /\ UNCHANGED runVars

\* CtfStreamProperties::new of the current run: Ok(stream) or Err
Derive ==
    /\ Len(derived) < MaxDerivations
    /\ \E trace_uuid \in TraceUuidPool, s \in StreamPool, fuel \in {0, Unlimited} :
         \E r \in {CtfStreamProperties_new(Ctx(client, store, fuel), trace_uuid, s)} :
             /\ client' = r.ctx.client
             /\ store' = r.ctx.store
             /\ last' = [op |-> IF r.ctx.err THEN "derive_err" ELSE "derived",
                          run |-> last.run]
             /\ derived' = Append(derived,
                              [run |-> last.run, trace_uuid |-> trace_uuid,
                               stream |-> s,
                               timeline_id |-> IF r.ctx.err THEN None
                                               ELSE Some(r.stream.timeline_id),
                               attrs |-> IF r.ctx.err THEN EmptyMap
                                         ELSE [h \in DOMAIN r.stream.attrs |->
                                                 <<r.ctx.store.declared[h],
                                                   r.stream.attrs[h]>>]])
    /\ UNCHANGED <<mode, cfg, trace, pc, result, interrupted, has_metadata,
                   props, extra_attrs, pending, ordering, cur, chunk, fed, flat>>

NextIdentity == NewRun \/ Derive

SpecIdentity == InitIdentity /\ [][NextIdentity]_vars


---------------------------------------------------------------------------
\* Field trees of the model

---------------------------------------------------------------------------
\* Flattening specification: one call of field_to_attr on a field tree

\* the tree of messy_event_structure up to its twelfth scalar, which is the
\* example tree of the crate documentation
ExampleFields ==
    <<Scalar(Some(<<"l0_f0">>), Bool(TRUE)),
      Scalar(None, UnsignedInteger(0)),
      Scalar(Some(<<"l0_f1">>), String(<<"blah">>)),
      Structure(Some(<<"l0_s0">>),
          <<Scalar(None, Bool(FALSE)),
            Scalar(Some(<<"l1_f0">>), SignedInteger(0 - 1)),
            Structure(None,
                <<Scalar(Some(<<"l2_f0">>), String(<<"blah">>)),
                  Scalar(None, Bool(TRUE)),
                  Scalar(None, UnsignedInteger(2))>>),
            Scalar(None, SignedInteger(3)),
            Scalar(Some(<<"l1_f1">>), String(<<"foo">>))>>),
      Scalar(Some(<<"l0_f2">>), SignedInteger(0 - 2)),
      Scalar(None, Bool(FALSE))>>

ExampleTree == Structure(None, ExampleFields)

\* messy_event_structure: the example tree followed by five reserved fields
messy_event_structure ==
    Structure(None,
        ExampleFields \o
        <<Scalar(Some(<<"remote_timeline_id">>), String(UuidToString("U1"))),
          Scalar(Some(<<"remote_nonce">>), UnsignedInteger(8)),
          Scalar(Some(<<"mutator_id">>), String(UuidToString("R1"))),
          Scalar(Some(<<"mutation_id">>), String(UuidToString("R2"))),
          Scalar(Some(<<"mutation_success">>), UnsignedInteger(1))>>)

\* field names: none, plain (id gives mutator.id inside a structure called
\* mutator), each reserved token, and names that hold two
\* reserved tokens or a token inside a longer identifier
NamePool ==
    {None, Some(<<"f">>), Some(<<"id">>)}
    \cup {Some(to_ctf_key(r)) : r \in ReservedAttrKeys}
    \cup {Some(<<"remote_timestamp", "_", "mutation_success">>),
          Some(<<"remote_timeline_id", "_", "mutator_id">>),
          Some(<<"remote_timeline_id", "_", "remote_nonce">>),
          Some(<<"my_", "remote_nonce">>)}

\* scalars of the eight kinds
ScalarPool ==
    <<Bool(TRUE), Bool(FALSE),
      UnsignedInteger(0), UnsignedInteger(8),
      SignedInteger(0 - 1),
      SinglePrecisionReal("1.5"), DoublePrecisionReal("2.5"),
      String(<<"blah">>), String(UuidToString("U1")), String(<<"0:0:0:1">>),
      UnsignedEnumeration(1, {}), UnsignedEnumeration(1, {"RUNNING"}),
      SignedEnumeration(0 - 1, {"A", "B"}), SignedEnumeration(0, {"A"})>>

\* names of the structure put around the scalar
StructNamePool ==
    {None, Some(<<"interaction">>), Some(<<"remote_nonce">>), Some(<<"mutator">>)}

\* names of the second of two sibling scalars
\* (the last three meet the key of the first sibling: a second field remapped
\* to the nonce, a field called like the first anonymous one, and a field
\* called like the label of an enumeration f)
SiblingNamePool ==
    {Some(<<"f">>), Some(<<"g">>), Some(<<"remote_nonce">>),
     Some(<<"anonymous_">> \o Decimal(0)), Some(<<"f", Dot, "label">>)}

ShapePool ==
    {"scalar", "root", "nested", "anonymous", "siblings", "empty", "example",
     "messy", "blank"}

\* field trees: a lone scalar, a scalar in the root structure, in a nested
\* structure, between anonymous siblings, two sibling scalars, the empty
\* root structure, the two trees of the tests and a scalar whose name is the
\* empty string
Tree(shape, n, s, sn, n2) ==
    CASE shape = "scalar" -> Scalar(n, s)
      [] shape = "root" -> Structure(None, <<Scalar(n, s)>>)
      [] shape = "nested" ->
            Structure(None, <<Structure(sn, <<Scalar(n, s)>>)>>)
      [] shape = "anonymous" ->
            Structure(None,
                <<Scalar(None, Bool(TRUE)),
                  Structure(None, <<Scalar(None, s), Scalar(n, s)>>),
                  Scalar(n, s)>>)
      [] shape = "siblings" ->
            Structure(None, <<Scalar(n, s), Scalar(n2, UnsignedInteger(8))>>)
      [] shape = "empty" -> Structure(None, <<>>)
      [] shape = "blank" -> Structure(None, <<Scalar(Some(<<>>), s)>>)
      [] shape = "example" -> ExampleTree
      [] shape = "messy" -> messy_event_structure

\* key prefixes: empty, plain, dotted inside, and with a leading or a
\* trailing dot
PrefixPool ==
    {<<>>, <<"p">>, <<"interaction">>, <<"some", Dot, "prefix">>,
     <<Dot, "asdf">>, <<"asdf", Dot>>, <<Dot>>}

InitFlatten ==
    /\ client = ClientNew(EmptyMap, EmptyMap)
    /\ store = StoreNew
    /\ last = [op |-> "new"]
    /\ Idle
    /\ \E shape \in ShapePool, p \in PrefixPool, a \in BOOLEAN, r \in BOOLEAN :
        \E n \in IF shape \in {"empty", "example", "messy", "blank"}
                 THEN {None} ELSE NamePool,
           i \in IF shape \in {"empty", "example", "messy"}
                 THEN {1} ELSE DOMAIN ScalarPool,
           sn \in IF shape = "nested" THEN StructNamePool ELSE {None},
           n2 \in IF shape = "siblings" THEN SiblingNamePool ELSE {None} :
            flat = Some([f |-> Tree(shape, n, ScalarPool[i], sn, n2),
                         prefix |-> p,
                         auto_map_interaction_fields |-> a,
                         is_reserved_event |-> r,
                         out |-> None])

\* field_to_attr(f, prefix, auto_map_interaction_fields, is_reserved_event)
FieldToAttr ==
    /\ flat.some /\ ~flat.v.out.some
    /\ \E r \in {field_to_attr(flat.v.f, flat.v.prefix,
                               flat.v.auto_map_interaction_fields,
                               flat.v.is_reserved_event)} :
            flat' = Some([flat.v EXCEPT !.out = Some(r)])
    /\ last' = [op |-> "field_to_attr"]
    /\ UNCHANGED <<client, store, mode, cfg, trace, pc, result, interrupted,
                   has_metadata, props, extra_attrs, pending, ordering, cur,
                   chunk, fed, derived>>

NextFlatten == FieldToAttr

SpecFlatten == InitFlatten /\ [][NextFlatten]_vars

---------------------------------------------------------------------------
\* Properties of the registry

TimelineCache == client.timeline_keys

EventCache == client.event_keys

\* the invocations of declare_attr_key for the key string name
InvocationsOf(name) == {i \in DOMAIN store.invoked : store.invoked[i].name = name}

InvokedNames == {store.invoked[i].name : i \in DOMAIN store.invoked}

\* C1 as stated: declare-key is invoked at most once per distinct final key
\* string, whatever the sequence of intern calls.
C1_InvokedAtMostOnce ==
    \A name \in InvokedNames : Cardinality(InvocationsOf(name)) <= 1

\* C1 as amended: once declare-key has succeeded for a final key string it is
\* never invoked for that string again, on either cache (so at most one
\* declaration per distinct final key string is accepted); only a failed
\* declaration, which caches nothing, is followed by another invocation.
C1_DeclaredAtMostOnce ==
    /\ \A i, j \in DOMAIN store.invoked :
          (i < j /\ store.invoked[i].name = store.invoked[j].name)
              => ~store.invoked[i].ok
    /\ \A i, j \in DOMAIN store.declared :
          store.declared[i] = store.declared[j] => i = j

\* a key declared first is interned again, after another key was declared,
\* and no second declaration of it was invoked
C1_Witness ==
    /\ last.op = "intern" /\ last.ok
    /\ Len(store.declared) >= 2
    /\ last.handle = 1
    /\ Cardinality(InvocationsOf(last.final)) = 1

RenamedApart(tbl) == {o \in DOMAIN tbl : tbl[o] # o}

\* C6 as stated: for no configured rename original -> new does the cache hold
\* both the original and the new spelling as separate entries.
C6_NeverBothSpellings ==
    /\ \A o \in RenamedApart(client.rename_timeline_attrs) :
          ~(o \in DOMAIN TimelineCache
              /\ client.rename_timeline_attrs[o] \in DOMAIN TimelineCache)
    /\ \A o \in RenamedApart(client.rename_event_attrs) :
          ~(o \in DOMAIN EventCache
              /\ client.rename_event_attrs[o] \in DOMAIN EventCache)

IsRenameTarget(tbl, s) == \E p \in DOMAIN tbl : tbl[p] = s

\* C6 as amended: the rename is applied before the cache lookup, so the cache
\* holds an entry under a renamed-from spelling only when that spelling is
\* itself the renamed-to spelling of a configured rename (chained renames).
C6_OriginalCachedOnlyAsTarget ==
    /\ \A o \in DOMAIN client.rename_timeline_attrs :
          o \in DOMAIN TimelineCache
              => IsRenameTarget(client.rename_timeline_attrs, o)
    /\ \A o \in DOMAIN client.rename_event_attrs :
          o \in DOMAIN EventCache
              => IsRenameTarget(client.rename_event_attrs, o)

\* a key with a configured rename was interned and is cached under the new
\* spelling
C6_Witness ==
    /\ last.op = "intern" /\ last.ok /\ last.ns = "event"
    /\ last.final # EventAttrKeyToString(last.key)
    /\ last.final \in DOMAIN EventCache
    /\ EventAttrKeyToString(last.key) \notin DOMAIN EventCache

FirstDeclared(s, name) ==
    CHOOSE i \in DOMAIN s.declared :
        /\ s.declared[i] = name
        /\ \A j \in DOMAIN s.declared : s.declared[j] = name => i <= j

CacheKept(old, new) ==
    \A k \in DOMAIN old : k \in DOMAIN new /\ new[k] = old[k]

\* C7: an intern call that succeeds returns the handle the store returned
\* when the final key string was first declared, which is the cached one; a
\* cache hit leaves the cache as it is and no cached handle is ever replaced.
C7_SameHandle ==
    [][ /\ CacheKept(client.timeline_keys, client'.timeline_keys)
        /\ CacheKept(client.event_keys, client'.event_keys)
        /\ (last'.op = "intern" /\ last'.ok) =>
              LET cache == IF last'.ns = "timeline"
                           THEN client'.timeline_keys ELSE client'.event_keys
              IN  /\ last'.final \in DOMAIN cache
                  /\ last'.handle = cache[last'.final]
                  /\ last'.handle \in DOMAIN store'.declared
                  /\ last'.handle = FirstDeclared(store', last'.final) ]_vars

\* a second intern call of a key returned the handle of its declaration
C7_Witness ==
    /\ last.op = "intern" /\ last.ok /\ last.ns = "timeline"
    /\ last.handle < Len(store.declared)
    /\ store.declared[last.handle] = last.final

---------------------------------------------------------------------------
\* Properties of the ingestion pipelines

\* the events of the log of a store, in submission order
EventsIn(st) == SelectSeq(st.log, LAMBDA e : e.op = "event")

\* the events submitted for timeline tid, in submission order
EventsOf(tid) == SelectSeq(EventsIn(store), LAMBDA e : e.tid = tid)

MetadataIn(st) == SelectSeq(st.log, LAMBDA e : e.op = "timeline_metadata")

\* C2: the ordering values of the events submitted for a timeline are, in
\* submission order, 0, 1, 2, ..., and the counter of every timeline is the
\* number of its own events, whatever the events of the other timelines.
C2_OrderingPerTimeline ==
    /\ \A i \in DOMAIN EventsIn(store) : EventsIn(store)[i].tid \in DOMAIN ordering
    /\ \A tid \in DOMAIN ordering :
          /\ \A i \in DOMAIN EventsOf(tid) : EventsOf(tid)[i].ordering = i - 1
          /\ ordering[tid] = Len(EventsOf(tid))

\* events of two timelines were submitted interleaved: A, B, A
C2_Witness ==
    /\ Len(EventsIn(store)) = 3
    /\ EventsIn(store)[1].tid = EventsIn(store)[3].tid
    /\ EventsIn(store)[1].tid # EventsIn(store)[2].tid
    /\ EventsIn(store)[3].ordering = 1
    /\ EventsIn(store)[2].ordering = 0

\* C3: when the loop body handles an event whose stream id has no timeline
\* in the properties, nothing is sent to the store (no event, no key
\* declaration), the registry and every ordering counter stay as they are,
\* and the run goes on with the next event.
C3_UnknownStreamDropped ==
    [][ ( /\ pc = "event" /\ cur.some /\ cur' = None
          /\ cur.v.stream_id \notin DOMAIN props.v.streams )
        => /\ store' = store
           /\ client' = client
           /\ ordering' = ordering
           /\ result' = "running"
           /\ pc' \in {"iter", "update", "chunk"}
           /\ last'.op = "warn_unknown_stream" ]_vars

\* an event of a stream unknown to the metadata was dropped after an event
\* of a known stream had been submitted
C3_Witness ==
    /\ last.op = "warn_unknown_stream"
    /\ result = "running"
    /\ Len(EventsIn(store)) >= 1

\* the phase of the run: Initializing, Declaring Timelines, Streaming
\* Events, Stopped
Phase ==
    CASE pc \in {"init", "conn", "meta", "meta_update", "found", "props"} -> 1
      [] pc = "declare" -> 2
      [] pc \in {"iter", "update", "updating", "chunk", "event"} -> 3
      [] pc = "done" -> 4
      [] OTHER -> 0

\* C4: every event submitted for a timeline comes after the metadata of that
\* timeline, no metadata is sent once an event has been submitted, the run
\* never goes back to an earlier phase, metadata is sent in the declaring
\* phase only and events in the streaming phase only.
C4_DeclaredBeforeStreaming ==
    /\ [](\A j \in DOMAIN store.log :
            store.log[j].op = "event" =>
                /\ \E i \in 1..(j - 1) :
                      /\ store.log[i].op = "timeline_metadata"
                      /\ store.log[i].tid = store.log[j].tid
                /\ \A k \in (j + 1)..Len(store.log) :
                      store.log[k].op # "timeline_metadata")
    /\ [][ /\ Phase' >= Phase
           /\ Len(MetadataIn(store')) > Len(MetadataIn(store)) => Phase = 2
           /\ Len(EventsIn(store')) > Len(EventsIn(store)) => Phase = 3 ]_vars

\* a run went through the four phases: two timelines declared, then events
\* submitted, then the end of the trace
C4_Witness ==
    /\ pc = "done" /\ result = "ok" /\ last.op = "end"
    /\ Len(MetadataIn(store)) = 2
    /\ Len(EventsIn(store)) >= 2

\* C5 as stated: a run whose interrupt flag was set ends with Ok.
C5_InterruptedEndsOk ==
    (interrupted /\ pc = "done") => result = "ok"

\* C5 as amended: once the flag is set and no event is in the loop body, no
\* event is submitted and none enters the loop body any more; the loop head
\* that polls the flag next ends the run with Ok, unless a second interrupt
\* ends the process first.  (A store or decoder failure of an operation
\* under way still ends the run with its error.)
C5_NoNewEventOnceInterrupted ==
    [][ /\ (interrupted /\ pc # "event")
              => /\ pc' # "event"
                 /\ EventsIn(store') = EventsIn(store)
        /\ (interrupted /\ pc \in {"meta", "iter", "update"})
              => /\ pc' = "done"
                 /\ result' \in {"ok", "exit130"} ]_vars

\* the flag was set, events had been submitted, the decoder had produced
\* more events than the run handled, and the run ended with Ok
C5_Witness ==
    /\ interrupted /\ pc = "done" /\ result = "ok" /\ last.op = "interrupted"
    /\ Len(EventsIn(store)) >= 1
    /\ fed > Len(EventsIn(store))

\* C8: a store operation that fails is the last one the run invokes (no
\* retry, no further event) and the run ends with the error.
C8_StoreFailureFatal ==
    Len(store.failures) > 0 =>
        /\ Len(store.failures) = 1
        /\ store.failures[1] = store.attempts
        /\ pc = "done" /\ result = "err" /\ last.op = "err_store"

\* a store operation failed after events had been submitted
C8_Witness ==
    /\ Len(store.failures) = 1
    /\ result = "err"
    /\ Len(EventsIn(store)) >= 1

\* C10: every timeline id is derived from one trace UUID, which is the
\* override if configured, else the UUID the decoder reports, else a fresh
\* one; the trace attributes, and the metadata sent for every timeline,
\* hold the trace UUID attribute exactly when an override or a decoder UUID
\* exists, and its value is then the text of the UUID the ids derive from.
C10_TraceUuidSelection ==
    props.some =>
        LET avail == IF cfg.trace_uuid.some THEN cfg.trace_uuid ELSE trace.t.uuid
            name == FinalTimelineKey(client, TKey("TraceUuid"))
            attrs == props.v.trace.attrs
            Holds(kvs) == \E i \in DOMAIN kvs : store.declared[kvs[i][1]] = name
        IN  /\ \E u \in (IF avail.some THEN {avail.v} ELSE FreshUuids) :
                  \A id \in DOMAIN props.v.streams :
                      props.v.streams[id].timeline_id = NewV5(u, ToLeBytes(id))
            /\ (\E h \in DOMAIN attrs : store.declared[h] = name) <=> avail.some
            /\ \A h \in DOMAIN attrs :
                  store.declared[h] = name
                      => attrs[h] = StringVal(UuidToString(avail.v))
            /\ \A j \in DOMAIN MetadataIn(store) :
                  /\ Holds(MetadataIn(store)[j].attrs) <=> avail.some
                  /\ \A i \in DOMAIN MetadataIn(store)[j].attrs :
                        store.declared[MetadataIn(store)[j].attrs[i][1]] = name
                            => MetadataIn(store)[j].attrs[i][2]
                                  = StringVal(UuidToString(avail.v))

\* an override and a decoder UUID were both there and the metadata of the
\* timelines was sent
C10_Witness ==
    /\ props.some /\ cfg.trace_uuid.some /\ trace.t.uuid.some
    /\ cfg.trace_uuid.v # trace.t.uuid.v
    /\ Len(MetadataIn(store)) = 2

\* the stream of the properties whose timeline is tid
StreamOfTimeline(tid) ==
    CHOOSE id \in DOMAIN props.v.streams : props.v.streams[id].timeline_id = tid

\* C11: in the attributes sent with the metadata of a timeline, every key
\* that is a key of the stream's attributes carries the stream's value, also
\* when the trace attributes hold the same key.
C11_StreamValueWins ==
    props.some =>
        \A j \in DOMAIN MetadataIn(store) :
            \A i \in DOMAIN MetadataIn(store)[j].attrs :
                LET kv == MetadataIn(store)[j].attrs[i]
                    sattrs == props.v.streams[
                                StreamOfTimeline(MetadataIn(store)[j].tid)].attrs
                IN  kv[1] \in DOMAIN sattrs => kv[2] = sattrs[kv[1]]

---------------------------------------------------------------------------
\* Properties of the timeline identity

\* C9: two derivations with the same trace UUID and the same stream id give
\* the same timeline id, whatever the name and the clock of the stream, in
\* one run or in two.
C9_SameIdForSamePair ==
    \A i, j \in DOMAIN derived :
        ( /\ derived[i].timeline_id.some /\ derived[j].timeline_id.some
          /\ derived[i].trace_uuid = derived[j].trace_uuid
          /\ derived[i].stream.id = derived[j].stream.id )
        => derived[i].timeline_id = derived[j].timeline_id

\* two runs derived an id for the same pair from streams that differ in
\* name and clock
C9_Witness ==
    \E i, j \in DOMAIN derived :
        /\ derived[i].run # derived[j].run
        /\ derived[i].timeline_id.some /\ derived[j].timeline_id.some
        /\ derived[i].trace_uuid = derived[j].trace_uuid
        /\ derived[i].stream.id = derived[j].stream.id
        /\ derived[i].stream.name # derived[j].stream.name
        /\ derived[i].stream.clock # derived[j].stream.clock


---------------------------------------------------------------------------
\* Properties of the field flattening

\* a call of field_to_attr has returned
Returned == flat.some /\ flat.v.out.some

\* the prefix starts or ends with '.'
DotAtAnEnd(p) == Len(p) > 0 /\ (p[1] = Dot \/ p[Len(p)] = Dot)

\* C12: field_to_attr fails with InvalidAttrKeyPrefix, and returns no
\* attribute and has handled no field, exactly when the prefix starts or ends
\* with '.'; every other prefix, the empty one included, is accepted.
C12_PrefixCheck ==
    Returned =>
        IF DotAtAnEnd(flat.v.prefix)
        THEN /\ ~flat.v.out.v.ok
             /\ flat.v.out.v.err = "InvalidAttrKeyPrefix"
             /\ DOMAIN flat.v.out.v = {"ok", "err"}
        ELSE flat.v.out.v.ok

\* a prefix with a trailing dot refused in front of a tree that has scalars
C12_Witness ==
    /\ Returned
    /\ flat.v.prefix = <<"asdf", Dot>>
    /\ flat.v.f = messy_event_structure
    /\ ~flat.v.out.v.ok

\* equality of two attribute values
SameVal(a, b) == a.t = b.t /\ a.v = b.v

\* the attributes that attr_key_gen_mixed_nested_structs expects under
\* some.prefix
ExpectedExampleAttrs ==
    LET P == <<"some", Dot, "prefix", Dot>>
    IN  <<<<P \o <<"anonymous_", "0">>, BigIntNewAttrVal(0)>>,
          <<P \o <<"anonymous_", "1">>, BoolVal(FALSE)>>,
          <<P \o <<"l0_f0">>, BoolVal(TRUE)>>,
          <<P \o <<"l0_f1">>, StringVal(<<"blah">>)>>,
          <<P \o <<"l0_f2">>, IntegerVal(0 - 2)>>,
          <<P \o <<"l0_s0", Dot, "anonymous_", "0">>, BoolVal(FALSE)>>,
          <<P \o <<"l0_s0", Dot, "anonymous_", "1", Dot, "anonymous_", "0">>,
            BoolVal(TRUE)>>,
          <<P \o <<"l0_s0", Dot, "anonymous_", "1", Dot, "anonymous_", "1">>,
            BigIntNewAttrVal(2)>>,
          <<P \o <<"l0_s0", Dot, "anonymous_", "1", Dot, "l2_f0">>,
            StringVal(<<"blah">>)>>,
          <<P \o <<"l0_s0", Dot, "anonymous_", "2">>, IntegerVal(3)>>,
          <<P \o <<"l0_s0", Dot, "l1_f0">>, IntegerVal(0 - 1)>>,
          <<P \o <<"l0_s0", Dot, "l1_f1">>, StringVal(<<"foo">>)>>>>

\* the example tree flattened under the prefix some.prefix
ExampleCall ==
    /\ Returned
    /\ flat.v.f = ExampleTree
    /\ flat.v.prefix = <<"some", Dot, "prefix">>

\* C13: the example tree flattened with the prefix some.prefix yields the
\* twelve expected attributes, each with the expected value, and no other,
\* whatever the two flags are.
C13_ExampleTree ==
    ExampleCall =>
        /\ flat.v.out.v.ok
        /\ Len(ExpectedExampleAttrs) = 12
        /\ Cardinality(DOMAIN flat.v.out.v.attrs) = 12
        /\ DOMAIN flat.v.out.v.attrs
              = {ExpectedExampleAttrs[i][1] : i \in DOMAIN ExpectedExampleAttrs}
        /\ \A i \in DOMAIN ExpectedExampleAttrs :
              SameVal(flat.v.out.v.attrs[ExpectedExampleAttrs[i][1]],
                      ExpectedExampleAttrs[i][2])

\* the example tree flattened under some.prefix, one scalar handled per
\* attribute
C13_Witness ==
    /\ ExampleCall
    /\ flat.v.out.v.ok
    /\ Len(flat.v.out.v.handled) = 12
    /\ flat.v.auto_map_interaction_fields /\ flat.v.is_reserved_event

RECURSIVE NestingDepths(_, _, _)
RECURSIVE NestingDepthsOfFields(_, _)
\* the scalars of a tree in the order generate_inner visits them, each as the
\* number of structures around it, the root structure not counted
NestingDepths(f, d, is_root) ==
    IF f.kind = "Scalar" THEN <<d>>
    ELSE NestingDepthsOfFields(f.fields, IF is_root THEN d ELSE d + 1)

NestingDepthsOfFields(fields, d) ==
    IF Len(fields) = 0 THEN <<>>
    ELSE NestingDepths(fields[1], d, FALSE)
            \o NestingDepthsOfFields(Tail(fields), d)

RECURSIVE NamesNonEmpty(_)
\* no field of the tree has the empty string as its name
NamesNonEmpty(f) ==
    /\ f.name.some => Len(f.name.v) > 0
    /\ f.kind = "Structure" =>
           \A i \in DOMAIN f.fields : NamesNonEmpty(f.fields[i])

RECURSIVE NamesDotFree(_)
\* no name of the tree holds a '.'
NamesDotFree(f) ==
    /\ f.name.some => \A i \in DOMAIN f.name.v : f.name.v[i] # Dot
    /\ f.kind = "Structure" =>
           \A i \in DOMAIN f.fields : NamesDotFree(f.fields[i])

\* the number of components that splitting on '.' gives; none for the empty
\* string, as the empty prefix is filtered out of the key
Components(k) ==
    IF Len(k) = 0 THEN 0
    ELSE 1 + Cardinality({i \in DOMAIN k : k[i] = Dot})

\* the names of the named fields of a structure, in field order
NamedSiblings(f) ==
    IF f.kind = "Scalar" THEN <<>>
    ELSE LET Names == [i \in DOMAIN f.fields |-> f.fields[i].name]
         IN  SelectSeq(Names, LAMBDA x : x.some)

RECURSIVE Reverse(_)
Reverse(q) == IF Len(q) = 0 THEN <<>> ELSE Reverse(Tail(q)) \o <<q[1]>>

\* the tree with the fields of its root structure in the opposite order
Reordered(f) ==
    IF f.kind = "Scalar" THEN f ELSE Structure(f.name, Reverse(f.fields))

\* the keys field_to_attr produces for the tree g under the flags and the
\* prefix of the call
KeysOf(g) ==
    LET Go(r) == IF r.ok THEN DOMAIN r.attrs ELSE {}
    IN  Go(field_to_attr(g, flat.v.prefix, flat.v.auto_map_interaction_fields,
                         flat.v.is_reserved_event))

\* every produced key, split on '.', has as many components beyond the
\* prefix as its scalar has structures around it, plus one for the scalar
DepthOfEveryKey ==
    \A i \in DOMAIN flat.v.out.v.handled :
        \A j \in DOMAIN flat.v.out.v.handled[i].kvs :
            Components(flat.v.out.v.handled[i].kvs[j][1])
                - Components(flat.v.prefix)
              = NestingDepths(flat.v.f, 0, TRUE)[i] + 1

\* the order of the named fields of the root structure can be read off the
\* produced keys: a tree with another order does not produce the same keys
OrderOfNamedSiblings ==
    KeysOf(Reordered(flat.v.f)) = DOMAIN flat.v.out.v.attrs
        => NamedSiblings(Reordered(flat.v.f)) = NamedSiblings(flat.v.f)

\* C14 as stated: the split keys give back the nesting depth of every scalar
\* and the order of the named siblings.
C14_DepthAndOrderRecovered ==
    (Returned /\ flat.v.out.v.ok) => (DepthOfEveryKey /\ OrderOfNamedSiblings)

\* C14: one scalar is handled per scalar of the tree, in traversal order; when
\* no name is the empty string or holds a '.', a scalar emitted under its computed key has a
\* key of as many components beyond the prefix as structures around it (the
\* root structure not counted) plus one, and the label attribute of an
\* enumeration has one more.
C14_DepthOfComputedKeys ==
    (Returned /\ flat.v.out.v.ok /\ NamesNonEmpty(flat.v.f)
        /\ NamesDotFree(flat.v.f)) =>
        /\ Len(flat.v.out.v.handled) = Len(NestingDepths(flat.v.f, 0, TRUE))
        /\ \A i \in DOMAIN flat.v.out.v.handled :
              LET h == flat.v.out.v.handled[i]
                  d == NestingDepths(flat.v.f, 0, TRUE)[i]
              IN  /\ Components(h.k) - Components(flat.v.prefix) = d + 1
                  /\ \A j \in DOMAIN h.kvs :
                        \/ h.kvs[j][1] = h.k
                        \/ /\ j = 2
                           /\ h.kvs[j][1] = h.k \o <<Dot, "label">>
                        \/ /\ Len(h.kvs) = 1
                           /\ \E r \in ReservedAttrKeys :
                                 /\ matches_key(r, h.k)
                                 /\ h.kvs[j][1] = to_modality_key(r)

\* a tree of three levels flattened under a dotted prefix, with scalars after
\* the end of a nested structure
C14_Witness ==
    /\ Returned /\ flat.v.out.v.ok
    /\ flat.v.f = messy_event_structure
    /\ flat.v.prefix = <<"some", Dot, "prefix">>
    /\ \E i \in DOMAIN flat.v.out.v.handled :
          /\ NestingDepths(flat.v.f, 0, TRUE)[i] = 2
          /\ Components(flat.v.out.v.handled[i].k) = 5
    /\ \E i \in DOMAIN flat.v.out.v.handled :
          /\ i > 10
          /\ NestingDepths(flat.v.f, 0, TRUE)[i] = 0
          /\ Components(flat.v.out.v.handled[i].k) = 3

\* the scalars handled by the call that has returned
Handled == IF Returned /\ flat.v.out.v.ok THEN flat.v.out.v.handled ELSE <<>>

IsEnumeration(s) == s.t \in {"UnsignedEnumeration", "SignedEnumeration"}

\* C15: an enumeration scalar of key K yields its integer value at K, and
\* with it the attribute K.label holding the label exactly when the value has
\* one label; with no label or several labels the value at K is all there is.
\* This holds whatever the flags are and whatever K contains.
C15_EnumerationLabel ==
    \A i \in DOMAIN Handled :
        LET h == Handled[i]
        IN  IsEnumeration(h.s) =>
              /\ h.kvs[1][1] = h.k
              /\ SameVal(h.kvs[1][2], [t |-> "Integer", v |-> h.s.v])
              /\ h.k \in DOMAIN flat.v.out.v.attrs
              /\ IF \E l \in h.s.labels : h.s.labels = {l}
                 THEN /\ Len(h.kvs) = 2
                      /\ h.kvs[2][1] = h.k \o <<Dot, "label">>
                      /\ SameVal(h.kvs[2][2],
                                 [t |-> "String",
                                  v |-> <<CHOOSE l \in h.s.labels : TRUE>>])
                      /\ h.kvs[2][1] \in DOMAIN flat.v.out.v.attrs
                 ELSE Len(h.kvs) = 1

\* an enumeration with one label under a nested structure, and its label
\* attribute in the map
C15_Witness ==
    /\ flat.some
    /\ flat.v.prefix = <<"p">>
    /\ \E i \in DOMAIN Handled :
          /\ Handled[i].s = UnsignedEnumeration(1, {"RUNNING"})
          /\ Handled[i].k = <<"p", Dot, "mutator", Dot, "f">>
          /\ <<"p", Dot, "mutator", Dot, "f", Dot, "label">>
                \in DOMAIN flat.v.out.v.attrs

\* the call has auto_map_interaction_fields set
AutoMap == flat.some /\ flat.v.auto_map_interaction_fields

\* C16: with auto_map_interaction_fields, a string scalar whose computed key
\* contains remote_timeline_id and not interaction.remote_timeline_id, and
\* whose text parses as a UUID, is emitted as one attribute, the timeline id
\* under interaction.remote_timeline_id, and not under its computed key.
C16_RemoteTimelineId ==
    AutoMap =>
        \A i \in DOMAIN Handled :
            LET h == Handled[i]
            IN  ( /\ h.s.t = "String"
                  /\ Contains(h.k, <<"remote_timeline_id">>)
                  /\ ~Contains(h.k, <<"interaction", Dot, "remote_timeline_id">>)
                  /\ ParseUuid(h.s.v).some )
                =>
                ( /\ Len(h.kvs) = 1
                  /\ h.kvs[1][1] = <<"interaction", Dot, "remote_timeline_id">>
                  /\ h.kvs[1][1] # h.k
                  /\ SameVal(h.kvs[1][2],
                             [t |-> "TimelineId", v |-> ParseUuid(h.s.v).v])
                  /\ (Len(Handled) = 1 =>
                        DOMAIN flat.v.out.v.attrs
                            = {<<"interaction", Dot, "remote_timeline_id">>}) )

\* a UUID string in a field whose name holds remote_timeline_id and
\* mutator_id, in a reserved event: the timeline id is what is emitted
C16_Witness ==
    /\ AutoMap /\ flat.v.is_reserved_event
    /\ Len(Handled) = 1
    /\ Handled[1].k = <<"p", Dot, "remote_timeline_id", "_", "mutator_id">>
    /\ Handled[1].s.t = "String"
    /\ Handled[1].kvs[1][1] = <<"interaction", Dot, "remote_timeline_id">>

\* a string that is not the text of a UUID, under a key that the TimelineId
\* arm takes
UnparsableTimelineId(h) ==
    /\ h.s.t = "String"
    /\ Contains(h.k, <<"remote_timeline_id">>)
    /\ ~Contains(h.k, <<"interaction", Dot, "remote_timeline_id">>)
    /\ ~ParseUuid(h.s.v).some

\* C17 as stated: with auto_map_interaction_fields, a string under a key
\* that contains remote_timeline_id and that does not parse as a UUID is
\* left out of the result.
C17_UnparsableOmitted ==
    AutoMap =>
        \A i \in DOMAIN Handled :
            UnparsableTimelineId(Handled[i]) =>
                /\ Len(Handled[i].kvs) = 0
                /\ Handled[i].k \notin DOMAIN flat.v.out.v.attrs

\* C17: with auto_map_interaction_fields, a string under a key that contains
\* remote_timeline_id (and not interaction.remote_timeline_id) and that does
\* not parse as a UUID is emitted under its computed key with its string
\* value, and under no other key.
C17_UnparsableKeepsComputedKey ==
    AutoMap =>
        \A i \in DOMAIN Handled :
            LET h == Handled[i]
            IN  UnparsableTimelineId(h) =>
                  /\ Len(h.kvs) = 1
                  /\ h.kvs[1][1] = h.k
                  /\ SameVal(h.kvs[1][2], [t |-> "String", v |-> h.s.v])
                  /\ h.k \in DOMAIN flat.v.out.v.attrs

\* a string that is no UUID in a field whose name holds remote_timeline_id
\* and remote_nonce: it stays under its computed key
C17_Witness ==
    /\ AutoMap
    /\ \E i \in DOMAIN Handled :
          /\ UnparsableTimelineId(Handled[i])
          /\ Handled[i].field_name
                = Some(<<"remote_timeline_id", "_", "remote_nonce">>)
          /\ Handled[i].kvs[1][1] = Handled[i].k

\* the reserved tokens that the key k contains
TokensIn(k) == {r \in ReservedAttrKeys : Contains(k, to_ctf_key(r))}

\* a scalar that is not an unsigned integer under a key that contains
\* remote_timestamp
NotATimestamp(h) ==
    /\ Contains(h.k, <<"remote_timestamp">>)
    /\ h.s.t # "UnsignedInteger"

\* the scalar is emitted under its computed key with the normal value
EmittedUnderComputedKey(h) ==
    /\ h.kvs[1][1] = h.k
    /\ SameVal(h.kvs[1][2], scalar_field_to_val(h.s))
    /\ h.k \in DOMAIN flat.v.out.v.attrs

\* no pair of the scalar has the key interaction.remote_timestamp
NoRemoteTimestamp(h) ==
    \A j \in DOMAIN h.kvs :
        h.kvs[j][1] # <<"interaction", Dot, "remote_timestamp">>

\* C18 as stated: with auto_map_interaction_fields, a scalar that is not an
\* unsigned integer under a key that contains remote_timestamp is emitted
\* under its computed key with its normal value, without an
\* interaction.remote_timestamp attribute.
C18_WrongTypeKeepsComputedKey ==
    AutoMap =>
        \A i \in DOMAIN Handled :
            NotATimestamp(Handled[i]) =>
                /\ EmittedUnderComputedKey(Handled[i])
                /\ NoRemoteTimestamp(Handled[i])

\* C18: with auto_map_interaction_fields, a call whose prefix is accepted
\* succeeds whatever the scalars are, and a scalar that is not an unsigned
\* integer under a key that contains remote_timestamp never yields a
\* timestamp value; when its key contains neither
\* interaction.remote_timestamp nor another reserved token, it is emitted
\* under its computed key with its normal value and no
\* interaction.remote_timestamp attribute is produced for it.
C18_WrongTypeFallsBack ==
    (AutoMap /\ Returned) =>
        /\ flat.v.out.v.ok = ~DotAtAnEnd(flat.v.prefix)
        /\ \A i \in DOMAIN Handled :
              NotATimestamp(Handled[i]) =>
                  /\ \A j \in DOMAIN Handled[i].kvs :
                        Handled[i].kvs[j][2].t # "Timestamp"
                  /\ ( /\ TokensIn(Handled[i].k) = {"Timestamp"}
                       /\ ~Contains(Handled[i].k,
                                    <<"interaction", Dot, "remote_timestamp">>) )
                     => ( /\ EmittedUnderComputedKey(Handled[i])
                          /\ NoRemoteTimestamp(Handled[i]) )

\* a signed integer in a field named remote_timestamp inside a nested
\* structure, kept under its computed key
C18_Witness ==
    /\ AutoMap /\ flat.v.is_reserved_event
    /\ \E i \in DOMAIN Handled :
          /\ Handled[i].s.t = "SignedInteger"
          /\ Handled[i].k = <<"p", Dot, "mutator", Dot, "remote_timestamp">>
          /\ EmittedUnderComputedKey(Handled[i])

\* the key k is one that the Nonce arm tests and takes: it contains
\* remote_nonce and not interaction.remote_nonce, and no earlier arm matches
NonceKey(k) ==
    /\ Contains(k, <<"remote_nonce">>)
    /\ ~Contains(k, <<"interaction", Dot, "remote_nonce">>)
    /\ \A r \in {"TimelineId", "LogicalTime", "Timestamp"} :
          ~(Contains(k, to_ctf_key(r)) /\ ~Contains(k, to_modality_key(r)))

\* the scalar is emitted as one attribute, interaction.remote_nonce, with
\* the normal value
EmittedAsNonce(h) ==
    /\ Len(h.kvs) = 1
    /\ h.kvs[1][1] = <<"interaction", Dot, "remote_nonce">>
    /\ SameVal(h.kvs[1][2], scalar_field_to_val(h.s))

\* C19 as stated: with auto_map_interaction_fields, a scalar of any of the
\* eight kinds, enumerations included, under a key that the Nonce arm takes
\* is emitted under interaction.remote_nonce with its normal value.
C19_NonceOfEveryKind ==
    AutoMap =>
        \A i \in DOMAIN Handled :
            NonceKey(Handled[i].k) => EmittedAsNonce(Handled[i])

\* C19: with auto_map_interaction_fields, a scalar of one of the six kinds
\* that are not enumerations, under a key that the Nonce arm takes, is
\* emitted under interaction.remote_nonce with its normal value; an
\* enumeration under such a key stays under its computed key.
C19_NonceOfNonEnumerations ==
    AutoMap =>
        \A i \in DOMAIN Handled :
            NonceKey(Handled[i].k) =>
                IF IsEnumeration(Handled[i].s)
                THEN /\ Handled[i].kvs[1][1] = Handled[i].k
                     /\ \A j \in DOMAIN Handled[i].kvs :
                           Handled[i].kvs[j][1]
                               # <<"interaction", Dot, "remote_nonce">>
                ELSE EmittedAsNonce(Handled[i])

\* a real number in a nested field whose name contains remote_nonce, in a
\* reserved event, emitted as the nonce
C19_Witness ==
    /\ AutoMap /\ flat.v.is_reserved_event
    /\ \E i \in DOMAIN Handled :
          /\ Handled[i].s.t = "DoublePrecisionReal"
          /\ Handled[i].k = <<"p", Dot, "mutator", Dot, "my_", "remote_nonce">>
          /\ EmittedAsNonce(Handled[i])
          /\ DOMAIN flat.v.out.v.attrs = {<<"interaction", Dot, "remote_nonce">>}

\* a string that is the text of a UUID under a key that contains the token
\* of r and not its canonical key
IdField(h, r) ==
    /\ h.s.t = "String"
    /\ ParseUuid(h.s.v).some
    /\ Contains(h.k, to_ctf_key(r))
    /\ ~Contains(h.k, to_modality_key(r))

\* the scalar is emitted as one attribute, the UUID as an integer under the
\* canonical key of r
EmittedAsId(h, r) ==
    /\ Len(h.kvs) = 1
    /\ h.kvs[1][1] = to_modality_key(r)
    /\ h.kvs[1][2].t = "BigInt"
    /\ h.kvs[1][2].v = [from_le_bytes |-> ParseUuid(h.s.v).v]

\* the remapping of r is applied to the field exactly when the event is a
\* reserved one, and the field keeps its computed key otherwise
RemappedIffReserved(h, r) ==
    IF flat.v.is_reserved_event
    THEN EmittedAsId(h, r)
    ELSE Len(h.kvs) = 1 /\ EmittedUnderComputedKey(h)

\* C20 as stated: a UUID string under a key that contains mutator_id, or
\* mutation_id, is remapped to mutator.id, or mutation.id, exactly when
\* is_reserved_event is set, whatever auto_map_interaction_fields is, and is
\* emitted under its computed key otherwise.
C20_ReservedIdsWhateverAutoMap ==
    \A i \in DOMAIN Handled :
        \A r \in {"MutatorId", "MutationId"} :
            IdField(Handled[i], r) => RemappedIffReserved(Handled[i], r)

\* C20: a UUID string under a key that contains mutator_id, or mutation_id,
\* and no other reserved token is remapped to mutator.id, or mutation.id,
\* exactly when is_reserved_event is set, whatever
\* auto_map_interaction_fields is, and is emitted under its computed key
\* otherwise.
C20_ReservedIdsAlone ==
    \A i \in DOMAIN Handled :
        \A r \in {"MutatorId", "MutationId"} :
            (IdField(Handled[i], r) /\ TokensIn(Handled[i].k) = {r})
                => RemappedIffReserved(Handled[i], r)

\* mutation_id remapped in a reserved event without
\* auto_map_interaction_fields, next to a mutator_id
C20_Witness ==
    /\ Returned /\ flat.v.is_reserved_event
    /\ ~flat.v.auto_map_interaction_fields
    /\ flat.v.f = messy_event_structure
    /\ \E i, j \in DOMAIN Handled :
          /\ IdField(Handled[i], "MutationId")
          /\ EmittedAsId(Handled[i], "MutationId")
          /\ IdField(Handled[j], "MutatorId")
          /\ EmittedAsId(Handled[j], "MutatorId")

\* a boolean or an integer under a key that contains mutation_success
SuccessField(h) ==
    /\ h.s.t \in {"Bool", "UnsignedInteger", "SignedInteger"}
    /\ Contains(h.k, <<"mutation_success">>)

\* the scalar is emitted as one attribute, mutation.success, a boolean that
\* is the boolean itself or says that the integer is not zero
EmittedAsSuccess(h) ==
    /\ Len(h.kvs) = 1
    /\ h.kvs[1][1] = <<"mutation", Dot, "success">>
    /\ h.kvs[1][2].t = "Bool"
    /\ h.kvs[1][2].v = (IF h.s.t = "Bool" THEN h.s.v ELSE h.s.v # 0)

\* C21 as stated: in a reserved event, a boolean or an integer under a key
\* that contains mutation_success is emitted under mutation.success as a
\* boolean, true exactly when the integer is not zero.
C21_SuccessOfEveryKey ==
    (Returned /\ flat.v.is_reserved_event) =>
        \A i \in DOMAIN Handled :
            SuccessField(Handled[i]) => EmittedAsSuccess(Handled[i])

\* C21: in a reserved event, a boolean, an unsigned or a signed integer under
\* a key that contains mutation_success, not mutation.success, and no other
\* reserved token is emitted under mutation.success as a boolean, true
\* exactly when the integer is not zero, whatever
\* auto_map_interaction_fields is; an enumeration under such a key stays
\* under its computed key.
C21_SuccessAlone ==
    (Returned /\ flat.v.is_reserved_event) =>
        \A i \in DOMAIN Handled :
            ( /\ Contains(Handled[i].k, <<"mutation_success">>)
              /\ ~Contains(Handled[i].k, <<"mutation", Dot, "success">>)
              /\ TokensIn(Handled[i].k) = {"MutationSuccess"} )
            => /\ SuccessField(Handled[i]) => EmittedAsSuccess(Handled[i])
               /\ IsEnumeration(Handled[i].s)
                     => Handled[i].kvs[1][1] = Handled[i].k

\* the unsigned integer 0 in a nested field mutation_success of a reserved
\* event: mutation.success is false
C21_Witness ==
    /\ Returned /\ flat.v.is_reserved_event
    /\ flat.v.auto_map_interaction_fields
    /\ \E i \in DOMAIN Handled :
          /\ Handled[i].s.t = "UnsignedInteger"
          /\ Handled[i].s.v = 0
          /\ Handled[i].k = <<"p", Dot, "mutator", Dot, "mutation_success">>
          /\ EmittedAsSuccess(Handled[i])
          /\ Handled[i].kvs[1][2].v = FALSE


\* the event entry a successful step of the loop body appends to the log
\* (open_timeline, event, close_timeline)
SubmittedByStep == store'.log[Len(store.log) + 2]

\* the values the entry e carries under the key named k in the store st
ValuesUnder(st, e, k) ==
    { i \in DOMAIN e.attrs : st.declared[e.attrs[i][1]] = k }

TimestampKeyName == Dotted(<<"event", "timestamp">>)

ClockSnapshotKeyName == Dotted(<<"event", "internal", "ctf", "clock_snapshot">>)

\* the loop body handles an event of a stream that has a timeline
HandlesKnown ==
    /\ pc = "event" /\ cur.some /\ cur' = None
    /\ cur.v.stream_id \in DOMAIN props.v.streams

\* C22: an event with a negative clock snapshot is not dropped: unless the
\* store fails it is submitted with the ordering value of its timeline, which
\* then advances by one, and the submitted event has neither event.timestamp
\* nor event.internal.ctf.clock_snapshot; an event with a non-negative
\* snapshot is submitted with both keys, each holding the snapshot as a
\* timestamp.
C22_NegativeSnapshotIngested ==
    [][ (HandlesKnown /\ cur.v.clock_snapshot.some)
        => /\ last'.op \in {"ingested", "err_store"}
           /\ last'.op = "ingested" =>
                LET tid == ResolveTimeline(props.v, cur.v.stream_id).v
                    e == SubmittedByStep
                    ts == ValuesUnder(store', e, TimestampKeyName)
                    cs == ValuesUnder(store', e, ClockSnapshotKeyName)
                IN  /\ Len(store'.log) = Len(store.log) + 3
                    /\ e.op = "event" /\ e.tid = tid
                    /\ e.ordering = ordering[tid]
                    /\ ordering'[tid] = ordering[tid] + 1
                    /\ IF cur.v.clock_snapshot.v < 0
                       THEN ts = {} /\ cs = {}
                       ELSE /\ Cardinality(ts) = 1 /\ Cardinality(cs) = 1
                            /\ \A i \in ts \cup cs :
                                  /\ e.attrs[i][2].t = "Timestamp"
                                  /\ e.attrs[i][2].v = cur.v.clock_snapshot.v ]_vars

\* the log holds an event without a timestamp that has the identifier of the
\* event class with the negative snapshot, after an event with a timestamp
C22_Witness ==
    /\ last.op = "ingested"
    /\ \E i, j \in DOMAIN EventsIn(store) :
          /\ i < j
          /\ ValuesUnder(store, EventsIn(store)[i], TimestampKeyName) # {}
          /\ ValuesUnder(store, EventsIn(store)[i], ClockSnapshotKeyName) # {}
          /\ ValuesUnder(store, EventsIn(store)[j], TimestampKeyName) = {}
          /\ ValuesUnder(store, EventsIn(store)[j], ClockSnapshotKeyName) = {}
          /\ \E a \in DOMAIN EventsIn(store)[j].attrs :
                EventsIn(store)[j].attrs[a][2].t = "String"

\* the values a derivation emitted under the key named k
EmittedUnder(d, k) ==
    { d.attrs[h][2].v : h \in {x \in DOMAIN d.attrs : d.attrs[x][1] = k} }

\* the name the precedence of the specification chooses for the stream s
ChosenName(s) ==
    IF s.name.some /\ s.name.v.exists
    THEN <<s.name.v.text[Len(s.name.v.text)]>>
    ELSE IF s.name.some THEN s.name.v.text
    ELSE <<"stream">> \o Decimal(s.id)

\* the name chosen when an existing path without a file name counts as a
\* name that is no path
ChosenNameOfFileNames(s) ==
    IF s.name.some /\ s.name.v.exists /\ s.name.v.text[Len(s.name.v.text)] # ".."
    THEN <<s.name.v.text[Len(s.name.v.text)]>>
    ELSE IF s.name.some THEN s.name.v.text
    ELSE <<"stream">> \o Decimal(s.id)

TimelineNameKey == Dotted(<<"timeline", "name">>)

StreamNameKey == Dotted(<<"timeline", "internal", "ctf", "stream", "name">>)

\* C23: the timeline name of a stream is the final path component of the
\* decoder-reported name when that name is an existing path, else that name
\* verbatim, else "stream<id>", and it is the value of both timeline.name
\* and timeline.internal.ctf.stream.name.
C23_NameByPrecedence ==
    \A i \in DOMAIN derived :
        derived[i].timeline_id.some =>
            /\ EmittedUnder(derived[i], TimelineNameKey)
                  = {ChosenName(derived[i].stream)}
            /\ EmittedUnder(derived[i], StreamNameKey)
                  = {ChosenName(derived[i].stream)}

\* C23 (as the code has it): the final path component is used when the name
\* is an existing path that has a file name (it does not end in ".."); any
\* other name is used verbatim, and without a name the result is
\* "stream<id>"; the same name is the value of both attributes.
C23_NameByPrecedenceOfFileNames ==
    \A i \in DOMAIN derived :
        derived[i].timeline_id.some =>
            /\ EmittedUnder(derived[i], TimelineNameKey)
                  = {ChosenNameOfFileNames(derived[i].stream)}
            /\ EmittedUnder(derived[i], StreamNameKey)
                  = {ChosenNameOfFileNames(derived[i].stream)}

\* a stream was named after the file of an existing path and another one,
\* whose existing path ends in "..", by its whole name
C23_Witness ==
    \E i, j \in DOMAIN derived :
        /\ derived[i].timeline_id.some /\ derived[j].timeline_id.some
        /\ derived[i].stream.name.some /\ derived[i].stream.name.v.exists
        /\ EmittedUnder(derived[i], TimelineNameKey) = {<<"stream_0">>}
        /\ derived[j].stream.name.some /\ derived[j].stream.name.v.exists
        /\ EmittedUnder(derived[j], StreamNameKey) = {<<"/trace/", "..">>}

\* C24: in the live collector, once the interrupt flag is set the run stops
\* in the end, whatever the phase it is in (connection probing, waiting for
\* metadata, streaming), when every decoder and store call returns.
C24_InterruptStopsLive ==
    (mode = "live" /\ interrupted) ~> (pc = "done")

\* the same once the connection probing is over
InterruptStopsAfterProbing ==
    (mode = "live" /\ interrupted /\ pc \notin {"init", "conn"}) ~> (pc = "done")

\* C25: while the run is streaming, the timeline of every stream of the
\* properties has an ordering counter, and no event is dropped because its
\* timeline was not registered.
C25_EveryTimelineCounted ==
    /\ (Phase = 3 /\ props.some) =>
          \A id \in DOMAIN props.v.streams :
              /\ ResolveTimeline(props.v, id).some
              /\ ResolveTimeline(props.v, id).v \in DOMAIN ordering
    /\ last.op # "warn_unregistered_timeline"

\* the loop body found the counter of an event of the second of two streams
C25_Witness ==
    /\ Phase = 3 /\ props.some
    /\ Cardinality(DOMAIN props.v.streams) = 2
    /\ Cardinality(DOMAIN ordering) = 2
    /\ last.op = "ingested"
    /\ ordering[ResolveTimeline(props.v, 1).v] = 1

\* in the log, every event follows the opening of its own timeline and is
\* followed by a close
EventsBracketed(log) ==
    \A i \in DOMAIN log :
        log[i].op = "event" =>
            /\ i > 1 /\ log[i - 1].op = "open_timeline"
            /\ log[i - 1].tid = log[i].tid
            /\ i < Len(log) /\ log[i + 1].op = "close_timeline"

\* in the log, a timeline is closed before the next one is opened
OpensPaired(log) ==
    \A i, j \in DOMAIN log :
        (i < j /\ log[i].op = "open_timeline" /\ log[j].op = "open_timeline")
            => \E k \in (i + 1)..(j - 1) : log[k].op = "close_timeline"

\* C26: every timeline-open of the pipeline is paired with a close: an event
\* is submitted while its own timeline is the open one and the timeline is
\* closed after it, no timeline is opened while another one is open, and a
\* run that ends without an error leaves no timeline open (so none of the
\* timelines opened while declaring stays without a close).
C26_OpenClosePaired ==
    /\ EventsBracketed(store.log)
    /\ OpensPaired(store.log)
    /\ (pc = "done" /\ result = "ok") => ~store.open.some

\* the part about the events: each is bracketed by the open and the close of
\* its own timeline
OpenClosePairedForEvents == EventsBracketed(store.log)

\* the timelines declared to the store so far
DeclaredTimelines(st) ==
    {MetadataIn(st)[i].tid : i \in DOMAIN MetadataIn(st)}

\* C27: in the live collector, from the moment streaming begins the
\* properties, the metadata sent to the store and the set of timelines with
\* a counter stay as they are, and every event of a stream that is not in
\* the properties is dropped with a warning and changes nothing.
C27_DeclaredSetFixed ==
    [][ (mode = "live" /\ Phase = 3)
        => /\ props' = props
           /\ MetadataIn(store') = MetadataIn(store)
           /\ DOMAIN ordering' = DOMAIN ordering
           /\ DOMAIN ordering = DeclaredTimelines(store)
           /\ ( /\ pc = "event" /\ cur.some /\ cur' = None
                /\ cur.v.stream_id \notin DOMAIN props.v.streams )
              => /\ last'.op = "warn_unknown_stream"
                 /\ store' = store /\ ordering' = ordering ]_vars

\* the live collector has handled three events without being interrupted:
\* one was submitted and the other two, of a stream unknown to the metadata,
\* were dropped, the last one just now
C27_Witness ==
    /\ mode = "live" /\ ~interrupted
    /\ fed = 3 /\ chunk = <<>> /\ cur = None
    /\ last.op = "warn_unknown_stream"
    /\ Len(EventsIn(store)) = 1
    /\ Cardinality(DeclaredTimelines(store)) = 2

\* C28: a try-again of the decoder in the streaming loop of the live
\* collector handles no event, leaves the store, the registry and every
\* ordering counter as they are and goes back to the head of the loop, whose
\* next step reads the interrupt flag: it stops the run when the flag is set
\* and polls the decoder otherwise.
C28_TryAgainChangesNothing ==
    [][ /\ (mode = "live" /\ pc = "updating" /\ last'.op = "try_again")
           => /\ store' = store /\ client' = client /\ ordering' = ordering
              /\ cur = None /\ cur' = None /\ chunk = <<>> /\ chunk' = <<>>
              /\ fed' = fed
              /\ pc' = "update" /\ result' = "running"
        /\ (mode = "live" /\ pc = "update" /\ pc' # "update")
           => IF interrupted
              THEN pc' = "done" /\ result' \in {"ok", "exit130"}
              ELSE pc' = "updating" ]_vars

\* the decoder answered try-again after an event had been submitted, and the
\* flag has been set in the meantime
C28_Witness ==
    /\ mode = "live" /\ pc = "update" /\ last.op = "try_again"
    /\ interrupted
    /\ Len(EventsIn(store)) >= 1

\* the number of unnamed fields among the first i - 1 of fields
UnnamedBefore(fields, i) ==
    Cardinality({j \in 1..(i - 1) : ~fields[j].name.some})

\* the name of the i-th child of a structure: its own, or anonymous_k when
\* it is the k-th unnamed child (k from 0)
NameOfChild(fields, i) ==
    IF fields[i].name.some THEN fields[i].name.v
    ELSE <<"anonymous_">> \o Decimal(UnnamedBefore(fields, i))

\* the components joined with '.', the empty ones among the enclosing ones
\* left out
KeyOfPath(path) ==
    JoinDot(SelectSeq(SubSeq(path, 1, Len(path) - 1), LAMBDA c : Len(c) > 0)
            \o <<path[Len(path)]>>)

RECURSIVE KeysOfChildren(_, _, _)
\* the keys of the scalars under the children i, i + 1, ... of a structure
\* reached by path, in field order, every child named by NameOfChild
KeysOfChildren(path, fields, i) ==
    IF i > Len(fields) THEN <<>>
    ELSE (IF fields[i].kind = "Scalar"
          THEN <<KeyOfPath(Append(path, NameOfChild(fields, i)))>>
          ELSE KeysOfChildren(Append(path, NameOfChild(fields, i)),
                              fields[i].fields, 1))
         \o KeysOfChildren(path, fields, i + 1)

\* the keys of the scalars of the tree f under the prefix, the root structure
\* flattened
KeysByPosition(f, prefix) ==
    IF f.kind = "Scalar" THEN KeysOfChildren(<<prefix>>, <<f>>, 1)
    ELSE KeysOfChildren(<<prefix>>, f.fields, 1)

\* C29: the key computed for every scalar names each unnamed field on its
\* path anonymous_k, k being the number of unnamed fields (scalars and
\* structures alike) before it in its own structure: named siblings do not
\* count, a nested structure counts its own children from 0, and the count of
\* the enclosing structure goes on after the nested structure.
C29_AnonymousNumbering ==
    (Returned /\ flat.v.out.v.ok) =>
        /\ Len(Handled) = Len(KeysByPosition(flat.v.f, flat.v.prefix))
        /\ \A i \in DOMAIN Handled :
              Handled[i].k = KeysByPosition(flat.v.f, flat.v.prefix)[i]

\* the example tree was flattened: the unnamed scalar after the unnamed
\* nested structure of l0_s0 is anonymous_2, the second unnamed scalar inside
\* that structure anonymous_1 and the last unnamed scalar of the root
\* anonymous_1
C29_Witness ==
    /\ Returned /\ flat.v.out.v.ok
    /\ flat.v.f = ExampleTree /\ flat.v.prefix = <<>>
    /\ Len(Handled) = 12
    /\ Handled[8].k = <<"l0_s0", Dot, "anonymous_", "1", Dot, "anonymous_", "1">>
    /\ Handled[9].k = <<"l0_s0", Dot, "anonymous_", "2">>
    /\ Handled[12].k = <<"anonymous_", "1">>

\* C30: when generate has run on a root structure, the stack of anonymous
\* indices and the stack of key components still hold at least one entry
\* each at the moment the attributes are returned, as they do from the
\* construction of the generator on.
C30_StacksNeverEmpty ==
    (Returned /\ flat.v.out.v.ok /\ flat.v.f.kind = "Structure") =>
        /\ Len(flat.v.out.v.anonymous_field_idices_per_nesting_depth) >= 1
        /\ Len(flat.v.out.v.attr_key_stack) >= 1

\* the stacks are as they were built when the root field is a scalar
StacksKeptForScalarRoot ==
    (Returned /\ flat.v.out.v.ok /\ flat.v.f.kind = "Scalar") =>
        /\ Len(flat.v.out.v.anonymous_field_idices_per_nesting_depth) = 1
        /\ flat.v.out.v.attr_key_stack = <<flat.v.prefix>>

\* a key of the form of an AttrKey: not empty, no '.' at either end
WellFormedKey(k) == Len(k) > 0 /\ k[1] # Dot /\ k[Len(k)] # Dot

\* the keys of the result of the call
ProducedKeys == IF Returned /\ flat.v.out.v.ok THEN DOMAIN flat.v.out.v.attrs ELSE {}

\* C31 as stated: every key produced by a call with an accepted prefix is
\* not empty and has no '.' at its ends (no name of the trees holds a '.').
C31_KeysWellFormed ==
    \A k \in ProducedKeys : WellFormedKey(k)

\* C31: the same when no field has the empty string as its name.
C31_KeysWellFormedOfNonEmptyNames ==
    (Returned /\ flat.v.out.v.ok /\ NamesNonEmpty(flat.v.f)) =>
        \A k \in ProducedKeys : WellFormedKey(k)

\* an unnamed enumeration in an unnamed nested structure was flattened under
\* the empty prefix: two keys, both well formed
C31_Witness ==
    /\ Returned /\ flat.v.out.v.ok /\ NamesNonEmpty(flat.v.f)
    /\ flat.v.prefix = <<>>
    /\ Cardinality(ProducedKeys) = 2
    /\ \E k \in ProducedKeys :
          k = <<"anonymous_", "0", Dot, "anonymous_", "0", Dot, "label">>

\* the interaction tokens in the order their arms are written
InteractionOrder == <<"TimelineId", "LogicalTime", "Timestamp", "Nonce">>

\* the positions of the interaction tokens that the key k contains
InteractionTokens(k) ==
    {i \in DOMAIN InteractionOrder : Contains(k, to_ctf_key(InteractionOrder[i]))}

\* the positions of the interaction tokens whose arm takes the key k
MatchingTokens(k) ==
    {i \in DOMAIN InteractionOrder : matches_key(InteractionOrder[i], k)}

\* no pair of the scalar has the canonical key of an interaction token other
\* than the first of the set among
OnlyFirstApplied(h, among) ==
    \A j \in DOMAIN h.kvs :
        \A i \in InteractionTokens(h.k) :
            h.kvs[j][1] = to_modality_key(InteractionOrder[i])
                => (among # {} /\ \A x \in among : i <= x)

\* C32 as stated: a scalar whose key contains several interaction tokens is
\* remapped, if at all, to the canonical key of the first of them in the
\* order remote_timeline_id, remote_logical_time, remote_timestamp,
\* remote_nonce, never to that of a later one.
C32_FirstTokenDecides ==
    AutoMap =>
        \A i \in DOMAIN Handled :
            Cardinality(InteractionTokens(Handled[i].k)) >= 2
                => OnlyFirstApplied(Handled[i], InteractionTokens(Handled[i].k))

\* C32: the same with the first of the tokens whose canonical key the key
\* does not contain already; a token whose canonical key is in the key is
\* passed over and a later one may be applied.
C32_FirstMatchingTokenDecides ==
    AutoMap =>
        \A i \in DOMAIN Handled :
            Cardinality(InteractionTokens(Handled[i].k)) >= 2
                => OnlyFirstApplied(Handled[i], MatchingTokens(Handled[i].k))

\* a UUID string under a key that holds remote_timeline_id and remote_nonce
\* became the timeline id, and nothing was emitted as the nonce
C32_Witness ==
    /\ AutoMap
    /\ \E i \in DOMAIN Handled :
          /\ InteractionTokens(Handled[i].k) = {1, 4}
          /\ MatchingTokens(Handled[i].k) = {1, 4}
          /\ Handled[i].kvs[1][1] = to_modality_key("TimelineId")
          /\ to_modality_key("Nonce") \notin DOMAIN flat.v.out.v.attrs

\* the reserved keys whose canonical key the key k contains
CanonicalIn(k) == {r \in ReservedAttrKeys : Contains(k, to_modality_key(r))}

\* C33 as stated: a scalar whose computed key contains a canonical reserved
\* key is emitted under its computed key with its normal value.
C33_CanonicalNeverRemapped ==
    \A i \in DOMAIN Handled :
        CanonicalIn(Handled[i].k) # {} => EmittedUnderComputedKey(Handled[i])

\* C33: a scalar whose computed key contains the canonical key of a reserved
\* key is never remapped by that reserved key, and it is emitted under its
\* computed key with its normal value when its key holds no token of another
\* reserved key.
C33_CanonicalNotRemappedByItsOwnKey ==
    \A i \in DOMAIN Handled :
        \A r \in CanonicalIn(Handled[i].k) :
            /\ \A j \in DOMAIN Handled[i].kvs :
                  Handled[i].kvs[j][1] = to_modality_key(r)
                      => ( /\ Handled[i].k = to_modality_key(r)
                           /\ EmittedUnderComputedKey(Handled[i]) )
            /\ TokensIn(Handled[i].k) \subseteq {r}
                  => EmittedUnderComputedKey(Handled[i])

\* with both flags set, a UUID string in the field remote_timeline_id of a
\* structure called interaction, under the empty prefix, kept its key and
\* its string value
C33_Witness ==
    /\ AutoMap /\ flat.v.is_reserved_event /\ flat.v.prefix = <<>>
    /\ \E i \in DOMAIN Handled :
          /\ Handled[i].k = to_modality_key("TimelineId")
          /\ Handled[i].s.t = "String" /\ ParseUuid(Handled[i].s.v).some
          /\ EmittedUnderComputedKey(Handled[i])
          /\ Handled[i].kvs[1][2].t = "String"

\* the rename configurations Client::new builds the tables of this state from
ConfigsOfClient ==
    {rn \in RenamePool :
        /\ ClientNew(rn[1], rn[2]).rename_timeline_attrs
              = client.rename_timeline_attrs
        /\ ClientNew(rn[1], rn[2]).rename_event_attrs
              = client.rename_event_attrs}

\* the renames with the prefix written in front of both keys of every rename
\* chosen by unprefixed
WithPrefix(renames, prefix, unprefixed(_)) ==
    [i \in DOMAIN renames |->
        IF unprefixed(renames[i])
        THEN Rename(prefix \o renames[i].original, prefix \o renames[i].new)
        ELSE renames[i]]

\* the client built from cfg behaves like the client of this state: the
\* tables are the same and the last intern call looked up the same key
BehavesAlike(c) ==
    /\ c.rename_timeline_attrs = client.rename_timeline_attrs
    /\ c.rename_event_attrs = client.rename_event_attrs
    /\ (last.op = "intern" /\ last.ns = "timeline")
          => last.final = FinalTimelineKey(c, last.key)
    /\ (last.op = "intern" /\ last.ns = "event")
          => last.final = FinalEventKey(c, last.key)

\* every key of the rename tables starts with the prefix of its namespace
\* and normalising it again changes nothing
TablesNormalized ==
    /\ \A k \in DOMAIN client.rename_timeline_attrs :
          /\ StartsWith(k, <<"timeline", Dot>>)
          /\ StartsWith(client.rename_timeline_attrs[k], <<"timeline", Dot>>)
          /\ normalize_timeline_key(k) = k
          /\ normalize_timeline_key(client.rename_timeline_attrs[k])
                = client.rename_timeline_attrs[k]
    /\ \A k \in DOMAIN client.rename_event_attrs :
          /\ StartsWith(k, <<"event", Dot>>)
          /\ StartsWith(client.rename_event_attrs[k], <<"event", Dot>>)
          /\ normalize_event_key(k) = k
          /\ normalize_event_key(client.rename_event_attrs[k])
                = client.rename_event_attrs[k]

\* C34 as stated: the stored rename keys are normalised, and whatever the
\* keys a and b of a rename are, writing the prefix in front of both gives a
\* client that behaves the same.
C34_PrefixOptional ==
    /\ TablesNormalized
    /\ \A rn \in ConfigsOfClient :
          BehavesAlike(
              ClientNew(WithPrefix(rn[1], <<"timeline", Dot>>, LAMBDA r : TRUE),
                        WithPrefix(rn[2], <<"event", Dot>>, LAMBDA r : TRUE)))

\* C34: the stored rename keys start with their namespace prefix and are
\* fixed points of the normalisation, and a rename whose two keys are given
\* without the prefix behaves for every intern call like the rename with
\* the prefix written in front of both.
C34_PrefixOptionalWhenAbsent ==
    /\ TablesNormalized
    /\ \A rn \in ConfigsOfClient :
          BehavesAlike(
              ClientNew(WithPrefix(rn[1], <<"timeline", Dot>>,
                            LAMBDA r :
                                /\ ~StartsWith(r.original, <<"timeline", Dot>>)
                                /\ ~StartsWith(r.new, <<"timeline", Dot>>)),
                        WithPrefix(rn[2], <<"event", Dot>>,
                            LAMBDA r :
                                /\ ~StartsWith(r.original, <<"event", Dot>>)
                                /\ ~StartsWith(r.new, <<"event", Dot>>))))

\* under the renames given as a,b in both namespaces, the event field a was
\* interned as event.b and the custom timeline key a as timeline.b
C34_Witness ==
    /\ << <<Rename(<<"a">>, <<"b">>)>>, <<Rename(<<"a">>, <<"b">>)>> >>
           \in ConfigsOfClient
    /\ last.op = "intern" /\ last.ok
    /\ \/ /\ last.ns = "event" /\ last.key = TKeyOf("Field", <<"a">>)
          /\ last.final = Dotted(<<"event", "b">>)
       \/ /\ last.ns = "timeline" /\ last.key = TKeyOf("Custom", <<"a">>)
          /\ last.final = Dotted(<<"timeline", "b">>)

\* the cache of the namespace ns in the registry c
CacheOf(c, ns) == IF ns = "timeline" THEN c.timeline_keys ELSE c.event_keys

\* the step is an intern call that invoked declare-key for its final key
DeclareInvoked ==
    /\ Len(store'.invoked) = Len(store.invoked) + 1
    /\ store'.invoked[Len(store'.invoked)].name = last'.final

\* C35: an intern call whose declare-key fails returns the error and leaves
\* the registry as it was, its key uncached; and an intern call for a key
\* that is not cached invokes declare-key, so the call after a failure
\* declares again.
C35_FailedDeclareNotCached ==
    [][ /\ ~last'.ok =>
              /\ DeclareInvoked
              /\ ~store'.invoked[Len(store'.invoked)].ok
              /\ client' = client
              /\ last'.final \notin DOMAIN CacheOf(client', last'.ns)
        /\ last'.final \notin DOMAIN CacheOf(client, last'.ns)
              => DeclareInvoked ]_vars

\* declare-key failed for a key and the next intern call for the same key
\* invoked it again, this time with success, and cached the handle
C35_Witness ==
    /\ last.op = "intern" /\ last.ok
    /\ \E i \in DOMAIN store.invoked :
          /\ i + 1 = Len(store.invoked)
          /\ ~store.invoked[i].ok /\ store.invoked[i + 1].ok
          /\ store.invoked[i].name = last.final
          /\ store.invoked[i + 1].name = last.final
          /\ last.final \in DOMAIN CacheOf(client, last.ns)
          /\ CacheOf(client, last.ns)[last.final] = last.handle

\* the key string of the logical key of the last call, and its rename table
LastKeyString ==
    IF last.ns = "timeline" THEN TimelineAttrKeyToString(last.key)
    ELSE EventAttrKeyToString(last.key)

LastRenameTable ==
    IF last.ns = "timeline" THEN client.rename_timeline_attrs
    ELSE client.rename_event_attrs

\* C36: an intern call that succeeds returns the handle of the string its
\* logical key is renamed to in one lookup of the rename table, whether or
\* not that string is itself the original of another rename.
C36_RenameAppliedOnce ==
    (last.op = "intern" /\ last.ok) =>
        /\ last.handle \in DOMAIN store.declared
        /\ store.declared[last.handle]
              = IF LastKeyString \in DOMAIN LastRenameTable
                THEN LastRenameTable[LastKeyString] ELSE LastKeyString
        /\ CacheOf(client, last.ns)[store.declared[last.handle]] = last.handle

\* with a -> b and b -> c configured, interning a returned the handle of b
C36_Witness ==
    /\ last.op = "intern" /\ last.ok
    /\ LastKeyString \in DOMAIN LastRenameTable
    /\ LastRenameTable[LastKeyString] \in DOMAIN LastRenameTable
    /\ LastRenameTable[LastRenameTable[LastKeyString]]
          # LastRenameTable[LastKeyString]
    /\ store.declared[last.handle] = LastRenameTable[LastKeyString]
    /\ store.invoked[Len(store.invoked)].name = LastRenameTable[LastKeyString]

RECURSIVE PairsOf(_)
\* the pairs of the handled scalars, in the order of the visit
PairsOf(handled) ==
    IF Len(handled) = 0 THEN <<>>
    ELSE handled[1].kvs \o PairsOf(Tail(handled))

\* the positions in Handled of the scalars that resolved to the key
ResolvedTo(key) ==
    {i \in DOMAIN Handled :
        \E j \in DOMAIN Handled[i].kvs : Handled[i].kvs[j][1] = key}

\* the value of the pair the visit produced last for the key
LastValueFor(pairs, key) ==
    pairs[CHOOSE i \in DOMAIN pairs :
              /\ pairs[i][1] = key
              /\ \A j \in DOMAIN pairs : pairs[j][1] = key => j <= i][2]

\* C37: the result of a flattening call holds one attribute for each key a
\* scalar resolved to, and its value is that of the scalar visited last
\* among those that resolved to the key.
C37_LastVisitedWins ==
    (Returned /\ flat.v.out.v.ok) =>
        /\ DOMAIN flat.v.out.v.attrs
              = {PairsOf(Handled)[i][1] : i \in DOMAIN PairsOf(Handled)}
        /\ \A key \in DOMAIN flat.v.out.v.attrs :
              SameVal(flat.v.out.v.attrs[key],
                      LastValueFor(PairsOf(Handled), key))

\* two scalars resolved to one key with different values, and the result
\* holds the value of the second: both remapped to the nonce
C37_Witness ==
    /\ Returned /\ flat.v.out.v.ok /\ Len(Handled) = 2
    /\ Handled[1].k # Handled[2].k
    /\ Handled[1].kvs[1][1] = to_modality_key("Nonce")
    /\ Handled[2].kvs[1][1] = to_modality_key("Nonce")
    /\ ~SameVal(Handled[1].kvs[1][2], Handled[2].kvs[1][2])
    /\ SameVal(flat.v.out.v.attrs[to_modality_key("Nonce")],
               Handled[2].kvs[1][2])

\* an unnamed field and a field called anonymous_0 met under anonymous_0
AnonymousNameMet ==
    /\ Returned /\ flat.v.out.v.ok /\ Len(Handled) = 2
    /\ ~Handled[1].field_name.some /\ Handled[2].field_name.some
    /\ ResolvedTo(Handled[2].k) = {1, 2}
    /\ ~SameVal(Handled[1].kvs[1][2], Handled[2].kvs[1][2])

\* the label of an enumeration and a field of the label's key met
EnumerationLabelMet ==
    /\ Returned /\ flat.v.out.v.ok /\ Len(Handled) = 2
    /\ Len(Handled[1].kvs) = 2
    /\ Handled[1].kvs[2][1] = Handled[2].kvs[1][1]
    /\ ~SameVal(Handled[1].kvs[2][2], Handled[2].kvs[1][2])

---------------------------------------------------------------------------
\* One call of CtfEvent::new on an event with field groups

\* the root structure of a field group
Root(fields) == Structure(None, fields)

CommonContextPool ==
    {None, Some(Root(<<Scalar(Some(<<"remote_nonce">>), UnsignedInteger(8))>>))}

SpecificContextPool ==
    {None,
     Some(Root(<<Scalar(Some(<<"mutator_id">>), String(UuidToString("U1")))>>))}

PacketContextPool ==
    {None,
     Some(Root(<<Scalar(Some(<<"remote_timeline_id">>),
                        String(UuidToString("U1"))),
                 Scalar(Some(<<"f">>), UnsignedEnumeration(1, {"RUNNING"}))>>))}

\* payloads: reserved fields, fields called like a built-in key, and two
\* plain fields for the renames of EventRenamePool
PayloadPool ==
    {None,
     Some(Root(<<Scalar(Some(<<"remote_nonce">>), UnsignedInteger(8)),
                 Scalar(Some(<<"mutator_id">>), String(UuidToString("U1")))>>)),
     Some(Root(<<Scalar(Some(<<"name">>), String(<<"blah">>))>>)),
     Some(Root(<<Scalar(Some(<<"timestamp">>), UnsignedInteger(8))>>)),
     Some(Root(<<Scalar(Some(<<"x">>), Bool(TRUE)),
                 Scalar(Some(<<"y">>), Bool(FALSE))>>))}

\* event renames: none, a payload field onto a built-in key, onto its
\* sibling, and onto the key of a context field
EventRenamePool ==
    {<<>>,
     <<Rename(<<"x">>, <<"name">>)>>,
     <<Rename(<<"x">>, <<"y">>)>>,
     <<Rename(<<"x">>,
              Dotted(<<"internal", "ctf", "common_context", "remote_nonce">>))>>}

HasherPool == [rev : BOOLEAN, rot : 0..1]

\* store operations that succeed before the first failure
EventFuelPool == {Unlimited, 0, 3}

OwnedEventPool ==
    [stream_id : {0},
     clock_snapshot : {None, Some(5)},
     class_properties :
        [id : {1},
         name : {None, Some(<<"ev">>), Some(<<"modality_mutator_announced">>)},
         log_level : {None, Some("Info")}],
     properties :
        [common_context : CommonContextPool,
         specific_context : SpecificContextPool,
         packet_context : PacketContextPool,
         payload : PayloadPool],
     hasher : HasherPool]

InitEvent ==
    /\ \E rn \in EventRenamePool : client = ClientNew(<<>>, rn)
    /\ store = StoreNew
    /\ \E e \in OwnedEventPool : last = [op |-> "event", event |-> e]
    /\ Idle /\ flat = None

\* CtfEvent::new(event, client)
NewEvent ==
    /\ last.op = "event"
    /\ \E fuel \in EventFuelPool :
        \E r \in {CtfEvent_new(Ctx(client, store, fuel), last.event)} :
            /\ client' = r.ctx.client
            /\ store' = r.ctx.store
            /\ last' = [op |-> "CtfEvent::new", event |-> last.event,
                        ok |-> ~r.ctx.err,
                        attrs |-> IF r.ctx.err THEN EmptyMap ELSE r.attrs,
                        written |-> IF r.ctx.err THEN <<>> ELSE r.written]
    /\ UNCHANGED runVars

NextEvent == NewEvent

SpecEvent == InitEvent /\ [][NextEvent]_vars

---------------------------------------------------------------------------
\* Properties of the attribute set of an event

\* CtfEvent::new returned Ok
EventBuilt == last.op = "CtfEvent::new" /\ last.ok

\* the handle the registry holds for the logical event key
HandleOf(key) == client.event_keys[FinalEventKey(client, key)]

\* the positions of last.written whose key was interned as the handle h
WrittenAs(h) == {i \in DOMAIN last.written : HandleOf(last.written[i][1]) = h}

\* the three context groups: <<key tag, field tree, key string of the group>>
ContextGroups ==
    <<<<"CommonContext", last.event.properties.common_context,
        Dotted(<<"event", "internal", "ctf", "common_context">>)>>,
      <<"SpecificContext", last.event.properties.specific_context,
        Dotted(<<"event", "internal", "ctf", "specific_context">>)>>,
      <<"PacketContext", last.event.properties.packet_context,
        Dotted(<<"event", "internal", "ctf", "packet_context">>)>>>>

\* the pair of the named scalar f of the root of a group is written under
\* the key of the group with the field's name and its normal value, and the
\* attribute set holds it under the handle of that key: declared as the
\* string of the group and the name unless an event rename names the key,
\* with the normal value unless a later pair was written under the handle
WrittenPlain(g, f) ==
    \E i \in DOMAIN last.written :
        /\ last.written[i][1] = TKeyOf(g[1], f.name.v)
        /\ SameVal(last.written[i][2], scalar_field_to_val(f.scalar))
        /\ HandleOf(last.written[i][1]) \in DOMAIN last.attrs
        /\ EventAttrKeyToString(last.written[i][1])
              \notin DOMAIN client.rename_event_attrs
              => store.declared[HandleOf(last.written[i][1])]
                    = g[3] \o <<Dot>> \o f.name.v
        /\ (\A j \in WrittenAs(HandleOf(last.written[i][1])) : j <= i)
              => SameVal(last.attrs[HandleOf(last.written[i][1])],
                         scalar_field_to_val(f.scalar))

\* C38: every field of the common, specific and packet context of an event
\* is written under the key of its group and its computed key with its
\* normal value, and no pair of a context group is written under a
\* canonical reserved key, whatever the name of the event.
C38_ContextNeverRemapped ==
    EventBuilt =>
        \A n \in DOMAIN ContextGroups :
            /\ ContextGroups[n][2].some =>
                  \A i \in DOMAIN ContextGroups[n][2].v.fields :
                      WrittenPlain(ContextGroups[n],
                                   ContextGroups[n][2].v.fields[i])
            /\ \A i \in DOMAIN last.written :
                  last.written[i][1].tag = ContextGroups[n][1] =>
                      /\ ContextGroups[n][2].some
                      /\ \A r \in ReservedAttrKeys :
                            last.written[i][1].arg # to_modality_key(r)
                      /\ \E j \in DOMAIN ContextGroups[n][2].v.fields :
                            \/ last.written[i][1].arg
                                  = ContextGroups[n][2].v.fields[j].name.v
                            \/ last.written[i][1].arg
                                  = ContextGroups[n][2].v.fields[j].name.v
                                       \o <<Dot, "label">>

\* a reserved event with the field mutator_id in the specific context and
\* in the payload: the attribute set holds the first as a string under the
\* key of the group and the second remapped to mutator.id
C38_Witness ==
    /\ EventBuilt
    /\ PayloadFlagsOf(last.event).reserved
    /\ DOMAIN client.rename_event_attrs = {}
    /\ \E h \in DOMAIN last.attrs :
          /\ store.declared[h]
                = Dotted(<<"event", "internal", "ctf", "specific_context",
                           "mutator_id">>)
          /\ SameVal(last.attrs[h], StringVal(UuidToString("U1")))
    /\ \E h \in DOMAIN last.attrs :
          /\ store.declared[h] = <<"event", Dot>> \o to_modality_key("MutatorId")
          /\ last.attrs[h].t = "BigInt"

\* the place of a key in the order CtfEvent::new writes the groups in; the
\* clock snapshot is written with the timestamp
GroupRank(key) ==
    CASE key.tag = "Name" -> 1
      [] key.tag \in {"Timestamp", "ClockSnapshot"} -> 2
      [] key.tag = "StreamId" -> 3
      [] key.tag = "Id" -> 4
      [] key.tag = "LogLevel" -> 5
      [] key.tag = "CommonContext" -> 6
      [] key.tag = "SpecificContext" -> 7
      [] key.tag = "PacketContext" -> 8
      [] key.tag = "Field" -> 9

\* the built-in keys
BuiltInTags ==
    {"Name", "Timestamp", "ClockSnapshot", "StreamId", "Id", "LogLevel"}

\* C39: the attribute set of an event holds one value for each handle a key
\* of the event was interned as, the value written last under the handle;
\* the pairs are written group after group in the order name, timestamp,
\* stream id, class id, log level, common, specific and packet context,
\* payload, so that a payload field whose final key is that of a built-in
\* key replaces the built-in value.
C39_GroupsInOrderLastWins ==
    EventBuilt =>
        /\ \A i, j \in DOMAIN last.written :
              i < j => GroupRank(last.written[i][1])
                          <= GroupRank(last.written[j][1])
        /\ DOMAIN last.attrs
              = {HandleOf(last.written[i][1]) : i \in DOMAIN last.written}
        /\ \A h \in DOMAIN last.attrs :
              \E i \in WrittenAs(h) :
                  /\ \A j \in WrittenAs(h) : j <= i
                  /\ SameVal(last.attrs[h], last.written[i][2])
        /\ \A i, j \in DOMAIN last.written :
              ( /\ last.written[i][1].tag \in BuiltInTags
                /\ last.written[j][1].tag = "Field"
                /\ HandleOf(last.written[i][1]) = HandleOf(last.written[j][1])
                /\ \A n \in WrittenAs(HandleOf(last.written[j][1])) : n <= j )
              => SameVal(last.attrs[HandleOf(last.written[i][1])],
                         last.written[j][2])

\* the value of the built-in key i gave way to a different one of the
\* payload field j
Replaced(i, j) ==
    /\ last.written[i][1].tag \in BuiltInTags
    /\ last.written[j][1].tag = "Field"
    /\ HandleOf(last.written[i][1]) = HandleOf(last.written[j][1])
    /\ ~SameVal(last.written[i][2], last.written[j][2])
    /\ SameVal(last.attrs[HandleOf(last.written[i][1])], last.written[j][2])

\* the name of the event was replaced by the payload field called name
C39_Witness ==
    /\ EventBuilt
    /\ DOMAIN client.rename_event_attrs = {}
    /\ \E i, j \in DOMAIN last.written :
          /\ last.written[i][1] = TKey("Name")
          /\ last.written[j][1] = TKeyOf("Field", <<"name">>)
          /\ Replaced(i, j)
          /\ store.declared[HandleOf(TKey("Name"))] = Dotted(<<"event", "name">>)

\* the timestamp was replaced by the payload field called timestamp
TimestampReplaced ==
    /\ EventBuilt
    /\ \E i, j \in DOMAIN last.written :
          /\ last.written[i][1] = TKey("Timestamp")
          /\ last.written[j][1] = TKeyOf("Field", <<"timestamp">>)
          /\ Replaced(i, j)

\* the name of the event was replaced by the field x, renamed to event.name
RenamedOntoName ==
    /\ EventBuilt
    /\ \E i, j \in DOMAIN last.written :
          /\ last.written[i][1] = TKey("Name")
          /\ last.written[j][1] = TKeyOf("Field", <<"x">>)
          /\ Replaced(i, j)

\* the payload fields x and y met under one handle, which holds the value b
SiblingsMet(b) ==
    /\ EventBuilt
    /\ \E i, j \in DOMAIN last.written :
          /\ last.written[i][1] = TKeyOf("Field", <<"x">>)
          /\ last.written[j][1] = TKeyOf("Field", <<"y">>)
          /\ HandleOf(last.written[i][1]) = HandleOf(last.written[j][1])
          /\ SameVal(last.attrs[HandleOf(last.written[i][1])], BoolVal(b))

\* do_main returned Err(Error::EmptyCtfTrace)
EmptyCtfTrace == pc = "done" /\ last.op = "err_empty_ctf_trace"

\* the live collector waits for metadata
WaitingForMetadata == mode = "live" /\ pc \in {"meta", "meta_update"}

\* C40 as stated: a wait for metadata during which the flag was set never
\* ends with no stream metadata at the EmptyCtfTrace check, the step before
\* the failure.
C40_InterruptedWaitNeverEmpty ==
    [][ (WaitingForMetadata /\ interrupted /\ Len(StreamProperties') = 0)
            => pc' # "found" ]_vars

\* the importer with no streams: nothing reaches the timelines of the
\* store, and the run ends with Ok unless the setup, the store or the
\* decoder fails or a second signal ends the process
ImporterWithoutStreams ==
    (mode = "importer" /\ Len(trace.streams) = 0) =>
        /\ store.log = <<>>
        /\ DeclaredTimelines(store) = {}
        /\ Len(EventsIn(store)) = 0
        /\ ~EmptyCtfTrace
        /\ (pc = "done" /\ result = "err")
              => last.op \in {"err_setup", "err_store", "err_decoder"}

\* C40: in the live collector the wait for metadata ends with success when
\* its head finds the flag set, and otherwise, when it ends with no stream
\* metadata, the run fails with EmptyCtfTrace, the store untouched and no
\* client built; a flag set after the head polled it does not prevent that
\* failure. The importer with no streams warns, declares no timeline and
\* submits no event, and the emptiness is no error.
C40_EmptyTraceOutcome ==
    [][ /\ EmptyCtfTrace' =>
              /\ mode = "live" /\ pc = "found" /\ Len(StreamProperties) = 0
              /\ result' = "err"
              /\ store' = StoreNew /\ client' = ClientNew(<<>>, <<>>)
        /\ (mode = "live" /\ pc = "found" /\ Len(StreamProperties) = 0)
              => \/ EmptyCtfTrace'
                 \/ (pc' = pc /\ interrupted' /\ ~interrupted)
                 \/ result' = "exit130"
        /\ (mode = "live" /\ pc = "meta" /\ interrupted)
              => pc' = "done" /\ result' \in {"ok", "exit130"}
        /\ (mode = "live" /\ pc = "meta_update" /\ pc' = "found")
              => last'.op \in {"update_end", "update_ok"}
        /\ ImporterWithoutStreams'
        /\ (mode = "importer" /\ pc = "props" /\ pc' # "done"
            /\ Len(trace.streams) = 0)
              => pc' \in {"props", "iter"}
                 /\ (pc' = "iter" => last'.op = "warn_no_trace_data") ]_vars

\* the decoder ended the wait with no metadata and the run failed with
\* EmptyCtfTrace, the store untouched
C40_Witness ==
    /\ mode = "live" /\ EmptyCtfTrace /\ result = "err"
    /\ ~has_metadata /\ ~interrupted
    /\ store = StoreNew /\ client = ClientNew(<<>>, <<>>)

\* the importer read a trace with no stream to its end: events were decoded,
\* none was submitted, the run ended with Ok
ImporterEmptyCompleted ==
    /\ mode = "importer" /\ Len(trace.streams) = 0
    /\ pc = "done" /\ result = "ok" /\ ~interrupted
    /\ fed > 0 /\ store.log = <<>>

\* the run failed with EmptyCtfTrace although the flag is set
EmptyAlthoughInterrupted == EmptyCtfTrace /\ interrupted
=============================================================================
